---- MODULE Spec2Model ----
(***************************************************************************)
(* Ecritoire backend: the completion client (OllamaClient), the text       *)
(* refiner and feedback analyzer (ContentGenerator), the profile           *)
(* aggregator (StyleAnalyzer.build_user_style_profile) and the request     *)
(* handlers of controllers/samples.py and controllers/generation.py over   *)
(* the persisted records of models/user.py.                                *)
(*                                                                         *)
(* Eleven specifications share the module:                                   *)
(*   SpecOllama    one call of OllamaClient.generate_text, step by step    *)
(*   SpecRefine    ContentGenerator._refine_with_style on bounded texts    *)
(*   SpecAggregate StyleAnalyzer.build_user_style_profile on bounded lists *)
(*   Spec          the request handlers over the database                  *)
(*   SpecFeedback  ContentGenerator.adapt_based_on_feedback on bounded texts *)
(*   SpecGenerate  ContentGenerator.generate_personalized_content           *)
(*   SpecCalls     two callers of adapt_based_on_feedback, interleaved      *)
(*   SpecStats     generations, feedback and the stats endpoint             *)
(*   SpecProfile   uploads, analyses and the get-profile endpoint           *)
(*   SpecAnalyze   StyleAnalyzer.analyze_writing_sample on bounded texts    *)
(*   SpecSubstitute  ContentGenerator._make_more_casual, _make_more_formal  *)
(* Each one leaves the variables of the others at their idle values.       *)
(***************************************************************************)
EXTENDS Integers, Sequences, FiniteSets, TLC

VARIABLES
    \* ---- OllamaClient.generate_text (SpecOllama)
    opc,        \* "idle" | "probe" | "post" | "stream" | "done"
    oprompt,    \* the keywords the lower-cased prompt contains
    omodel,     \* the model of the innermost generate_text frame
    odepth,     \* number of nested generate_text frames
    omodels,    \* the models of the POST /api/generate requests, in order
    olast,      \* the last thing that happened to the call
    oresult,    \* what the outermost frame gave its caller
    \* ---- ContentGenerator._refine_with_style (SpecRefine)
    rpc,        \* "idle" | "input" | "done"
    rtext,      \* generated_text, a sequence of tokens
    rprofile,   \* style_profile: avg_sentence_length, formality_preference
    rout,       \* the text after the length pass and the refined text
    \* ---- StyleAnalyzer.build_user_style_profile (SpecAggregate)
    apc,        \* "idle" | "input" | "done"
    ainput,     \* sample_analyses
    aout,       \* what the call gave: [kind |-> "returned" | "raised", value]
    \* ---- the database and the last response (Spec)
    samples,    \* writing_samples rows, in id order
    profiles,   \* user_style_profiles rows, in id order
    generated,  \* generated_content rows, in id order
    feedbacks,  \* feedback_history rows, in id order
    resp,       \* the last request and its response
    \* ---- ContentGenerator.adapt_based_on_feedback (SpecFeedback)
    fpc,        \* "idle" | "input" | "done"
    fprompt,    \* original_prompt
    fgenerated, \* generated_content, a sequence of tokens
    fmodified,  \* user_modifications, a sequence of tokens
    fout,       \* the feedback analysis the call returned
    \* ---- ContentGenerator.generate_personalized_content (SpecGenerate)
    gpc,        \* "idle" | "input" | "done"
    gvia,       \* "direct" call or call by the "endpoint" generate_content
    gprompt,    \* prompt
    gcontext,   \* context
    ganalyses,  \* the sample analyses the profile was aggregated from
    gprofile,   \* user_style_profile
    gcompletion, \* the text the completion client returns
    gsent,      \* the request the completion client was sent
    gout,       \* the text the call returned
    \* ---- StyleAnalyzer.analyze_writing_sample (SpecAnalyze)
    xpc,        \* "idle" | "input" | "done"
    xtext,      \* text, a sequence of tokens
    xout,       \* the analysis the call returned
    \* ---- ContentGenerator._make_more_casual, _make_more_formal (SpecSubstitute)
    spc,        \* "idle" | "input" | "done"
    sop,        \* "casual" | "formal": the substitution called
    stext,      \* text, a sequence of tokens
    sout,       \* once: the text returned; twice: the text a second call returns
    \* ---- concurrent calls of adapt_based_on_feedback (SpecCalls)
    calls       \* per caller: its position, arguments, local dict and result

ovars == <<opc, oprompt, omodel, odepth, omodels, olast, oresult>>
rvars == <<rpc, rtext, rprofile, rout>>
avars == <<apc, ainput, aout>>
dvars == <<samples, profiles, generated, feedbacks, resp>>
fvars == <<fpc, fprompt, fgenerated, fmodified, fout>>
gvars == <<gpc, gvia, gprompt, gcontext, ganalyses, gprofile, gcompletion, gsent, gout>>
xvars == <<xpc, xtext, xout>>
svars == <<spc, sop, stext, sout>>
cvars == <<calls>>
vars == <<ovars, rvars, avars, dvars, fvars, gvars, xvars, svars, cvars>>

(***************************************************************************)
(* Small helpers.                                                          *)
(***************************************************************************)
Max(a, b) == IF a >= b THEN a ELSE b

RECURSIVE SumSeq(_)
SumSeq(s) == IF s = <<>> THEN 0 ELSE Head(s) + SumSeq(Tail(s))

RECURSIVE Flatten(_)
Flatten(ss) == IF ss = <<>> THEN <<>> ELSE Head(ss) \o Flatten(Tail(ss))

(***************************************************************************)
(* OllamaClient (services/ai/ollama_client.py).                            *)
(***************************************************************************)
\* Python's recursion limit, counted in generate_text frames.
MaxDepth == 4

DefaultModel == "llama2:3b-chat"
LargeModel == "llama2:7b-chat"
SmallModel == "llama2:3b-chat"

\* The keywords _fallback_generation looks for in prompt.lower().
Keywords == {"email", "essay", "write about", "story", "creative"}

\* _fallback_generation: the template chosen by the first matching branch.
FallbackGeneration(prompt) ==
    IF "email" \in prompt THEN "template_email"
    ELSE IF "essay" \in prompt \/ "write about" \in prompt THEN "template_essay"
    ELSE IF "story" \in prompt \/ "creative" \in prompt THEN "template_story"
    ELSE "template_generic"

\* Exception classes the call can meet.  The first three derive from
\* requests.exceptions.RequestException, the others only from Exception.
RequestExceptions == {"Timeout", "ConnectionError", "ChunkedEncodingError"}
OtherExceptions == {"AttributeError", "RecursionError"}

Returned(kind, text) == [kind |-> kind, text |-> text]
NoResult == Returned("none", "")

\* A mutant of the handlers: only RequestException is caught.
HandleOnlyRequestErrors(exc, prompt) ==
    IF exc \in RequestExceptions
    THEN Returned("template", FallbackGeneration(prompt))
    ELSE Returned("raised", exc)

\* The except clauses of generate_text (lines 58-63): what the frame returns
\* when exc is raised inside its try block.
Handle(exc, prompt) ==
    IF exc \in RequestExceptions
    THEN Returned("template", FallbackGeneration(prompt))
    ELSE IF exc \in RequestExceptions \cup OtherExceptions
    THEN Returned("template", FallbackGeneration(prompt))
    ELSE Returned("raised", exc)

\* What a 200 answer's stream adds up to after strip(): nothing or some text.
StreamTexts == {"", "model text"}

OIdle ==
    /\ opc = "idle" /\ oprompt = {} /\ omodel = DefaultModel /\ odepth = 0
    /\ omodels = <<>> /\ olast = "none" /\ oresult = NoResult

\* A caller enters generate_text: __call__ with the large model
\* (generate_personalized_content) or directly with the default model
\* (_generate_generic_content).
OCall ==
    /\ opc = "idle"
    /\ \E p \in SUBSET Keywords, m \in {LargeModel, DefaultModel} :
          /\ oprompt' = p
          /\ omodel' = m
    /\ odepth' = 1
    /\ opc' = "probe"
    /\ olast' = "call"
    /\ UNCHANGED <<omodels, oresult>>
    /\ UNCHANGED <<rvars, avars, dvars, fvars, gvars, xvars, svars, cvars>>

OFinish(last, result) ==
    /\ opc' = "done"
    /\ olast' = last
    /\ oresult' = result
    /\ odepth' = 0

\* _is_ollama_available: GET /api/tags answers 200.
OProbeUp ==
    /\ opc = "probe"
    /\ opc' = "post"
    /\ olast' = "available"
    /\ UNCHANGED <<oprompt, omodel, odepth, omodels, oresult>>
    /\ UNCHANGED <<rvars, avars, dvars, fvars, gvars, xvars, svars, cvars>>

\* _is_ollama_available returns False (another status, or its bare except):
\* line 17 returns the fallback.
OProbeDown ==
    /\ opc = "probe"
    /\ \E why \in {"probe_status", "probe_exception"} :
          OFinish(why, Returned("template", FallbackGeneration(oprompt)))
    /\ UNCHANGED <<oprompt, omodel, omodels>>
    /\ UNCHANGED <<rvars, avars, dvars, fvars, gvars, xvars, svars, cvars>>

\* requests.post raises (timeout, transport) or an unexpected error occurs
\* before an answer is there.
OPostRaises ==
    /\ opc = "post"
    /\ \E exc \in {"Timeout", "ConnectionError", "AttributeError"} :
          OFinish(exc, Handle(exc, oprompt))
    /\ omodels' = Append(omodels, omodel)
    /\ UNCHANGED <<oprompt, omodel>>
    /\ UNCHANGED <<rvars, avars, dvars, fvars, gvars, xvars, svars, cvars>>

\* The server answers 200: the lines are read next.
OPostOk ==
    /\ opc = "post"
    /\ opc' = "stream"
    /\ olast' = "status_200"
    /\ omodels' = Append(omodels, omodel)
    /\ UNCHANGED <<oprompt, omodel, odepth, oresult>>
    /\ UNCHANGED <<rvars, avars, dvars, fvars, gvars, xvars, svars, cvars>>

\* Lines 37-48: the stream is read to its end and output.strip() returned.
OStreamDone ==
    /\ opc = "stream"
    /\ \E t \in StreamTexts : OFinish("stream_read", Returned("model", t))
    /\ UNCHANGED <<oprompt, omodel, omodels>>
    /\ UNCHANGED <<rvars, avars, dvars, fvars, gvars, xvars, svars, cvars>>

\* Reading the stream fails: the transport breaks, or a line is JSON but
\* no object (data.get raises).
OStreamRaises ==
    /\ opc = "stream"
    /\ \E exc \in {"ChunkedEncodingError", "AttributeError"} :
          OFinish(exc, Handle(exc, oprompt))
    /\ UNCHANGED <<oprompt, omodel, omodels>>
    /\ UNCHANGED <<rvars, avars, dvars, fvars, gvars, xvars, svars, cvars>>

\* Lines 49-52: 500 "requires more system memory": generate_text calls
\* itself with the smaller model.  At the recursion limit the call raises
\* RecursionError inside the try block instead.
OPostTooLarge ==
    /\ opc = "post"
    /\ omodels' = Append(omodels, omodel)
    /\ IF odepth < MaxDepth
       THEN /\ odepth' = odepth + 1
            /\ omodel' = SmallModel
            /\ opc' = "probe"
            /\ olast' = "status_500_memory"
            /\ UNCHANGED <<oprompt, oresult>>
       ELSE /\ OFinish("RecursionError", Handle("RecursionError", oprompt))
            /\ UNCHANGED <<oprompt, omodel>>
    /\ UNCHANGED <<rvars, avars, dvars, fvars, gvars, xvars, svars, cvars>>

\* Lines 54-56: any other status.
OPostOtherStatus ==
    /\ opc = "post"
    /\ omodels' = Append(omodels, omodel)
    /\ OFinish("status_other", Returned("template", FallbackGeneration(oprompt)))
    /\ UNCHANGED <<oprompt, omodel>>
    /\ UNCHANGED <<rvars, avars, dvars, fvars, gvars, xvars, svars, cvars>>

\* The caller has its string; the client is ready for the next call.
OReturn ==
    /\ opc = "done"
    /\ opc' = "idle" /\ oprompt' = {} /\ omodel' = DefaultModel /\ odepth' = 0
    /\ omodels' = <<>> /\ olast' = "none" /\ oresult' = NoResult
    /\ UNCHANGED <<rvars, avars, dvars, fvars, gvars, xvars, svars, cvars>>

ONext ==
    \/ OCall \/ OProbeUp \/ OProbeDown \/ OPostRaises \/ OPostOk
    \/ OStreamDone \/ OStreamRaises \/ OPostTooLarge \/ OPostOtherStatus
    \/ OReturn

(***************************************************************************)
(* Numbers.  The analyzer computes with floats; the model computes the     *)
(* same quotients exactly, as fractions n/d in lowest terms with d > 0.    *)
(***************************************************************************)
Abs(x) == IF x < 0 THEN -x ELSE x

RECURSIVE GCD(_, _)
GCD(a, b) == IF b = 0 THEN a ELSE GCD(b, a % b)

LCM(a, b) == (a \div GCD(a, b)) * b

Rat(n, d) == LET g == GCD(Abs(n), d) IN [n |-> n \div g, d |-> d \div g]
Whole(k) == [n |-> k, d |-> 1]
RAdd(x, y) ==
    LET l == LCM(x.d, y.d) IN Rat(x.n * (l \div x.d) + y.n * (l \div y.d), l)
RSub(x, y) == RAdd(x, [n |-> -y.n, d |-> y.d])
RMul(x, y) == Rat(x.n * y.n, x.d * y.d)
RDiv(x, k) == Rat(x.n, x.d * k)
RLess(x, y) ==
    LET l == LCM(x.d, y.d) IN x.n * (l \div x.d) < y.n * (l \div y.d)
RMin(x, y) == IF RLess(y, x) THEN y ELSE x
RMax(x, y) == IF RLess(x, y) THEN y ELSE x

RECURSIVE RSum(_)
RSum(s) == IF s = <<>> THEN Whole(0) ELSE RAdd(Head(s), RSum(Tail(s)))

\* np.mean of a non-empty list
Mean(s) == RDiv(RSum(s), Len(s))

(***************************************************************************)
(* Text.  A text is a sequence of tokens: a word (its lower-cased letters  *)
(* b, whether it is capitalised, and the punctuation stuck to its end) or  *)
(* a terminator, one of the characters re.split(r'[.!?]') splits at.       *)
(* Whitespace separates tokens and carries nothing else.                   *)
(***************************************************************************)
Tok(b) == [b |-> b, cap |-> FALSE, tail |-> ""]
Cap(b) == [b |-> b, cap |-> TRUE, tail |-> ""]
Comma(b) == [b |-> b, cap |-> FALSE, tail |-> ","]

Terminators == {".", "!", "?"}
IsTerminator(t) == t.b \in Terminators
Dot == Tok(".")

\* str.lower() of one token, and of a text
LowerTok(t) == [t EXCEPT !.cap = FALSE]
LowerText(text) == [i \in 1..Len(text) |-> LowerTok(text[i])]

\* re.split(r'[.!?]', text) followed by strip() and the skip of empty
\* pieces (content_generator.py lines 98-104, 124): the word sequences of
\* the non-empty sentences, in order.
RECURSIVE SplitAcc(_, _, _)
SplitAcc(text, cur, acc) ==
    IF text = <<>>
    THEN IF cur = <<>> THEN acc ELSE Append(acc, cur)
    ELSE IF IsTerminator(Head(text))
    THEN SplitAcc(Tail(text), <<>>, IF cur = <<>> THEN acc ELSE Append(acc, cur))
    ELSE SplitAcc(Tail(text), Append(cur, Head(text)), acc)

SplitSentences(text) == SplitAcc(text, <<>>, <<>>)

\* '. '.join(processed) + '.'
JoinSentences(processed) ==
    IF processed = <<>> THEN <<Dot>>
    ELSE Flatten([i \in 1..Len(processed) |->
                    IF i < Len(processed) THEN processed[i] \o <<Dot>>
                    ELSE processed[i]]) \o <<Dot>>

(***************************************************************************)
(* ContentGenerator._break_long_sentences (lines 97-120).                  *)
(***************************************************************************)
LongSentenceWords == 25
MinSplitIndex == 8
SplitConjunctions == {"and", "but", "so", "because", "while"}

\* word.lower() in ['and', 'but', 'so', 'because', 'while']
IsSplitWord(t) == t.b \in SplitConjunctions /\ t.tail = ""

\* A mutant of the scan: the conjunction stays at the head of the second part.
RECURSIVE ScanSplitKeepsConjunction(_, _)
ScanSplitKeepsConjunction(words, i) ==
    IF i >= Len(words) THEN <<words>>
    ELSE IF IsSplitWord(words[i + 1]) /\ i > MinSplitIndex
    THEN <<SubSeq(words, 1, i), SubSeq(words, i + 1, Len(words))>>
    ELSE ScanSplitKeepsConjunction(words, i + 1)

\* The for/else loop of lines 109-116 from index i (0-based) on: the two
\* parts at the first conjunction with i > 8, or the sentence itself.
RECURSIVE ScanSplit(_, _)
ScanSplit(words, i) ==
    IF i >= Len(words) THEN <<words>>
    ELSE IF IsSplitWord(words[i + 1]) /\ i > MinSplitIndex
    THEN <<SubSeq(words, 1, i), SubSeq(words, i + 2, Len(words))>>
    ELSE ScanSplit(words, i + 1)

\* One pass of the loop body, lines 106-118.
BreakOne(words) ==
    IF Len(words) > LongSentenceWords THEN ScanSplit(words, 0) ELSE <<words>>

BreakLongSentences(text) ==
    LET sentences == SplitSentences(text)
        processed == Flatten([i \in 1..Len(sentences) |-> BreakOne(sentences[i])])
    IN  JoinSentences(processed)

(***************************************************************************)
(* ContentGenerator._combine_short_sentences (lines 122-140).              *)
(***************************************************************************)
ShortSentenceWords == 8

\* f"{current}, and {next_sent.lower()}"
CombineTwo(current, next) ==
    LET n == Len(current)
        last == [current[n] EXCEPT !.tail = current[n].tail \o ","]
    IN  SubSeq(current, 1, n - 1) \o <<last, Tok("and")>> \o LowerText(next)

\* A mutant of the loop: after a merge only the short sentence is consumed.
RECURSIVE CombineFromKeepsSuccessor(_, _)
CombineFromKeepsSuccessor(sentences, i) ==
    IF i > Len(sentences) THEN <<>>
    ELSE IF Len(sentences[i]) < ShortSentenceWords /\ i + 1 <= Len(sentences)
    THEN <<CombineTwo(sentences[i], sentences[i + 1])>>
            \o CombineFromKeepsSuccessor(sentences, i + 1)
    ELSE <<sentences[i]>> \o CombineFromKeepsSuccessor(sentences, i + 1)

\* The while loop from index i (1-based here).
RECURSIVE CombineFrom(_, _)
CombineFrom(sentences, i) ==
    IF i > Len(sentences) THEN <<>>
    ELSE IF Len(sentences[i]) < ShortSentenceWords /\ i + 1 <= Len(sentences)
    THEN <<CombineTwo(sentences[i], sentences[i + 1])>> \o CombineFrom(sentences, i + 2)
    ELSE <<sentences[i]>> \o CombineFrom(sentences, i + 1)

CombineShortSentences(text) ==
    JoinSentences(CombineFrom(SplitSentences(text), 1))

(***************************************************************************)
(* ContentGenerator._make_more_casual / _make_more_formal (lines 142-169). *)
(* re.sub(r'\bword\b', replacement, text, flags=re.IGNORECASE): the letters *)
(* of a matching word are replaced, in any case, and what is stuck to the  *)
(* word stays.                                                             *)
(***************************************************************************)
CasualReplacement(t) ==
    IF t.b = "therefore" THEN <<[t EXCEPT !.b = "so", !.cap = FALSE]>>
    ELSE IF t.b = "however" THEN <<[t EXCEPT !.b = "but", !.cap = FALSE]>>
    ELSE IF t.b = "furthermore" THEN <<[t EXCEPT !.b = "also", !.cap = FALSE]>>
    ELSE IF t.b = "consequently" THEN <<[t EXCEPT !.b = "so", !.cap = FALSE]>>
    ELSE IF t.b = "nevertheless"
    THEN <<Tok("but"), [t EXCEPT !.b = "still", !.cap = FALSE]>>
    ELSE <<t>>

\* A mutant of line 153: the match is case-sensitive.
MakeMoreCasualCaseSensitive(text) ==
    Flatten([i \in 1..Len(text) |->
        IF text[i].cap THEN <<text[i]>> ELSE CasualReplacement(text[i])])

MakeMoreCasual(text) == Flatten([i \in 1..Len(text) |-> CasualReplacement(text[i])])

FormalReplacement(t) ==
    IF t.b = "so" THEN [t EXCEPT !.b = "therefore", !.cap = FALSE]
    ELSE IF t.b = "but" THEN [t EXCEPT !.b = "however", !.cap = FALSE]
    ELSE IF t.b = "also" THEN [t EXCEPT !.b = "furthermore", !.cap = FALSE]
    ELSE IF t.b = "anyway" THEN [t EXCEPT !.b = "nonetheless", !.cap = FALSE]
    ELSE t

\* A mutant of line 167: the match is case-sensitive.
MakeMoreFormalCaseSensitive(text) ==
    [i \in 1..Len(text) |->
        IF text[i].cap THEN text[i] ELSE FormalReplacement(text[i])]

MakeMoreFormal(text) == [i \in 1..Len(text) |-> FormalReplacement(text[i])]

(***************************************************************************)
(* ContentGenerator._refine_with_style (lines 78-95).                      *)
(***************************************************************************)
BreakBelow == 12
CombineAbove == 20

\* lines 80-86: the sentence-length pass
LengthPass(text, profile) ==
    IF RLess(profile.avg_sentence_length, Whole(BreakBelow))
    THEN BreakLongSentences(text)
    ELSE IF RLess(Whole(CombineAbove), profile.avg_sentence_length)
    THEN CombineShortSentences(text)
    ELSE text

\* lines 88-93: the formality pass
FormalityPass(text, profile) ==
    IF profile.formality_preference = "casual" THEN MakeMoreCasual(text)
    ELSE IF profile.formality_preference = "formal" THEN MakeMoreFormal(text)
    ELSE text

\* A mutant of the refiner: the formality pass runs before the length pass.
RefineFormalityFirst(text, profile) ==
    LengthPass(FormalityPass(text, profile), profile)

\* strip() removes white space only: the tokens stay
RefineWithStyle(text, profile) == FormalityPass(LengthPass(text, profile), profile)

(***************************************************************************)
(* Inputs of SpecRefine.                                                   *)
(***************************************************************************)
\* the longest sentence tried
MaxSentLen == 27

WordTable == <<"w01", "w02", "w03", "w04", "w05", "w06", "w07", "w08", "w09", "w10", "w11", "w12", "w13", "w14", "w15", "w16", "w17", "w18", "w19", "w20", "w21", "w22", "w23", "w24", "w25", "w26", "w27", "w28", "w29", "w30", "w31", "w32", "w33", "w34", "w35", "w36", "w37", "w38", "w39", "w40">>

\* A sentence of n filler words with token c at index p and d at index q
\* (0-based; an index outside 0..n-1 places nothing).
Sentence(n, p, c, q, d) ==
    [i \in 1..n |-> IF i - 1 = p THEN c
                    ELSE IF i - 1 = q THEN d
                    ELSE Tok(WordTable[i])]

SentenceLengths == {7, LongSentenceWords, LongSentenceWords + 1, MaxSentLen}
FirstPlaces == {-1, 0, MinSplitIndex, MinSplitIndex + 1, 12, LongSentenceWords}
SecondPlaces == {-1, 10, MaxSentLen - 1}
FirstTokens == {Tok("and"), Cap("but"), Comma("so"), Tok("therefore")}
SecondTokens == {Tok("while"), Tok("or")}
Leads == {<<>>, <<Cap("also"), Tok("fine"), Tok("!")>>}

\* The generated text of tests/test_content_generator.py line 17.
ScenarioText ==
    <<Cap("this"), Tok("is"), Tok("a"), Tok("pretty"), Tok("long"),
      Tok("sentence"), Tok("because"), Tok("it"), Tok("keeps"), Tok("going"),
      Tok("and"), Tok("going"), Tok("and"), Tok("might"), Tok("be"),
      Tok("too"), Tok("verbose"), Dot>>

\* Texts of up to MaxPieces sentences, each of 2 or of 8 words.
MaxPieces == 3
ShortPiece == <<Cap("we"), Tok("ship"), Dot>>
LongPiece ==
    <<Cap("so"), Tok("the"), Tok("team"), Tok("ships"), Tok("it"),
      Tok("on"), Tok("every"), Tok("friday"), Tok("!")>>
RECURSIVE PieceTexts(_)
PieceTexts(k) ==
    IF k = 0 THEN {<<>>}
    ELSE LET shorter == PieceTexts(k - 1)
         IN  shorter \cup {t \o piece : t \in shorter, piece \in {ShortPiece, LongPiece}}

RefineTexts ==
    { lead \o Sentence(n, p, c, q, d) \o <<Tok("?")>> :
        lead \in Leads, n \in SentenceLengths, p \in FirstPlaces,
        c \in FirstTokens, q \in SecondPlaces, d \in SecondTokens }
    \cup {ScenarioText, <<>>} \cup PieceTexts(MaxPieces)

TargetLengths ==
    {Whole(8), Rat(2 * BreakBelow - 1, 2), Whole(BreakBelow), Whole(CombineAbove + 1)}
Formalities == {"neutral", "casual", "formal"}
RefineProfiles ==
    [avg_sentence_length : TargetLengths, formality_preference : Formalities]

\* style_profile.get(..., default): lines 80 and 89
DefaultProfile ==
    [avg_sentence_length |-> Whole(15), formality_preference |-> "neutral"]
NoOutput == [mid |-> <<>>, text |-> <<>>]

RIdle == rpc = "idle" /\ rtext = <<>> /\ rprofile = DefaultProfile /\ rout = NoOutput

\* a generated text and a profile reach the refiner
RInput ==
    /\ rpc = "idle"
    /\ rtext' \in RefineTexts
    /\ rprofile' \in RefineProfiles
    /\ rpc' = "input"
    /\ rout' = NoOutput
    /\ UNCHANGED <<ovars, avars, dvars, fvars, gvars, xvars, svars, cvars>>

\* _refine_with_style runs; rout holds the text after the length pass
\* (mid) and the returned text (text)
RRefine ==
    /\ rpc = "input"
    /\ rout' = [mid |-> LengthPass(rtext, rprofile),
                text |-> RefineWithStyle(rtext, rprofile)]
    /\ rpc' = "done"
    /\ UNCHANGED <<rtext, rprofile>>
    /\ UNCHANGED <<ovars, avars, dvars, fvars, gvars, xvars, svars, cvars>>

\* the caller has the refined text
RReturn ==
    /\ rpc = "done"
    /\ rpc' = "idle" /\ rtext' = <<>> /\ rprofile' = DefaultProfile /\ rout' = NoOutput
    /\ UNCHANGED <<ovars, avars, dvars, fvars, gvars, xvars, svars, cvars>>

RNext == RInput \/ RRefine \/ RReturn

(***************************************************************************)
(* Python dicts and Counters keep insertion order: a dict is a sequence of *)
(* [k, v] items with distinct keys.                                        *)
(***************************************************************************)
Item(k, v) == [k |-> k, v |-> v]
\* The items grouped by key: one [k, v] per key, in the order the keys come
\* first, v being the values given to the key, in order.  A loop that
\* updates d[k] item by item leaves d with these keys in this order.
Grouped(items) ==
    LET n == Len(items)
        firsts == {i \in 1..n : \A j \in 1..(i - 1) : items[j].k # items[i].k}
        nth(r) == CHOOSE i \in firsts : Cardinality({j \in firsts : j < i}) = r - 1
        values(k) ==
            LET match == SelectSeq(items, LAMBDA item : item.k = k)
            IN  [j \in 1..Len(match) |-> match[j].v]
        groups == [r \in 1..Cardinality(firsts) |->
                     Item(items[nth(r)].k, values(items[nth(r)].k))]
    IN  SubSeq(groups, 1, Len(groups))

\* counter[k] += v for every item, starting from an empty counter
Tally(items) ==
    LET groups == Grouped(items)
        counter == [r \in 1..Len(groups) |-> Item(groups[r].k, SumSeq(groups[r].v))]
    IN  SubSeq(counter, 1, Len(counter))

\* Counter(list)
CounterOf(list) == Tally([i \in 1..Len(list) |-> Item(list[i], 1)])

\* sorted(items, key=count, reverse=True): stable, so equal counts keep
\* their insertion order
SortByCount(d) ==
    LET n == Len(d)
        place(i) == Cardinality({j \in 1..n : d[j].v > d[i].v})
                    + Cardinality({j \in 1..(i - 1) : d[j].v = d[i].v}) + 1
        sorted == [r \in 1..n |-> d[CHOOSE i \in 1..n : place(i) = r]]
    IN  SubSeq(sorted, 1, n)

\* Counter.most_common(n)
MostCommon(counter, n) ==
    LET sorted == SortByCount(counter)
    IN  SubSeq(sorted, 1, IF Len(sorted) < n THEN Len(sorted) ELSE n)

(***************************************************************************)
(* The writing samples of the model, and what the analyzer's character-    *)
(* level tests (vowel groups, endings, the substring test `w in text`)     *)
(* give for each of their words.  The texts carry no dash, parenthesis,    *)
(* quotation mark or apostrophe, every terminator is stuck to the word     *)
(* before it, and no word of an emotion list occurs twice in one text.     *)
(***************************************************************************)
TextS1 ==
    <<Cap("i"), Tok("am"), Tok("very"), Tok("happy"), Tok("today"), Tok("!"), Cap("the"), Tok("sun"), Tok("is"), Tok("bright"), Tok("and"), Cap("i"), Tok("feel"), Tok("excited"), Tok("about"), Tok("life"), Tok(".")>>

TextS2 ==
    <<[b |-> "however", cap |-> TRUE, tail |-> ","], Tok("this"), Tok("remains"), Tok("problematic"), Tok("."), Cap("therefore"), Tok("we"), Tok("must"), [b |-> "act", cap |-> FALSE, tail |-> ","], Tok("and"), Tok("consequently"), Tok("nothing"), Tok("was"), Tok("made"), Tok("clear"), Tok(".")>>

TextS3 ==
    <<Cap("yeah"), Cap("i"), Tok("really"), Tok("love"), Tok("this"), Tok("!"), Cap("it"), Tok("is"), Tok("gonna"), Tok("be"), [b |-> "great", cap |-> FALSE, tail |-> ","], Tok("totally"), Tok("amazing"), Tok("!"), Cap("who"), Tok("would"), Tok("hate"), Tok("it"), Tok("?")>>

TextS4 ==
    <<Cap("happy"), Tok("times"), Tok("."), Cap("great"), Tok("vibes"), Tok(".")>>

ContentKeys == {"S1", "S2", "S3", "S4"}

TextOf(key) ==
    CASE key = "S1" -> TextS1
      [] key = "S2" -> TextS2
      [] key = "S3" -> TextS3
      [] key = "S4" -> TextS4

\* groups: the vowel groups of the word; ends_e: it ends in "e"; adj: it
\* ends in ly, ful, less, able or ible; ly: it ends in ly; inside: the
\* words of the analyzer's lists (and "and", "but", "or") that occur in it.
Facts(b) ==
    CASE b = "" -> [groups |-> 0, ends_e |-> FALSE, adj |-> FALSE, ly |-> FALSE, inside |-> {}]
    [] b = "about" -> [groups |-> 2, ends_e |-> FALSE, adj |-> FALSE, ly |-> FALSE, inside |-> {}]
    [] b = "act" -> [groups |-> 1, ends_e |-> FALSE, adj |-> FALSE, ly |-> FALSE, inside |-> {}]
    [] b = "am" -> [groups |-> 1, ends_e |-> FALSE, adj |-> FALSE, ly |-> FALSE, inside |-> {}]
    [] b = "amazing" -> [groups |-> 3, ends_e |-> FALSE, adj |-> FALSE, ly |-> FALSE, inside |-> {"amazing"}]
    [] b = "and" -> [groups |-> 1, ends_e |-> FALSE, adj |-> FALSE, ly |-> FALSE, inside |-> {"and"}]
    [] b = "be" -> [groups |-> 1, ends_e |-> TRUE, adj |-> FALSE, ly |-> FALSE, inside |-> {}]
    [] b = "bright" -> [groups |-> 1, ends_e |-> FALSE, adj |-> FALSE, ly |-> FALSE, inside |-> {}]
    [] b = "clear" -> [groups |-> 1, ends_e |-> FALSE, adj |-> FALSE, ly |-> FALSE, inside |-> {}]
    [] b = "consequently" -> [groups |-> 4, ends_e |-> FALSE, adj |-> TRUE, ly |-> TRUE, inside |-> {"consequently"}]
    [] b = "excited" -> [groups |-> 3, ends_e |-> FALSE, adj |-> FALSE, ly |-> FALSE, inside |-> {"excited"}]
    [] b = "feel" -> [groups |-> 1, ends_e |-> FALSE, adj |-> FALSE, ly |-> FALSE, inside |-> {}]
    [] b = "gonna" -> [groups |-> 2, ends_e |-> FALSE, adj |-> FALSE, ly |-> FALSE, inside |-> {"gonna"}]
    [] b = "great" -> [groups |-> 1, ends_e |-> FALSE, adj |-> FALSE, ly |-> FALSE, inside |-> {"great"}]
    [] b = "happy" -> [groups |-> 2, ends_e |-> FALSE, adj |-> FALSE, ly |-> FALSE, inside |-> {"happy"}]
    [] b = "hate" -> [groups |-> 2, ends_e |-> TRUE, adj |-> FALSE, ly |-> FALSE, inside |-> {"hate"}]
    [] b = "however" -> [groups |-> 3, ends_e |-> FALSE, adj |-> FALSE, ly |-> FALSE, inside |-> {"however"}]
    [] b = "i" -> [groups |-> 1, ends_e |-> FALSE, adj |-> FALSE, ly |-> FALSE, inside |-> {}]
    [] b = "is" -> [groups |-> 1, ends_e |-> FALSE, adj |-> FALSE, ly |-> FALSE, inside |-> {}]
    [] b = "it" -> [groups |-> 1, ends_e |-> FALSE, adj |-> FALSE, ly |-> FALSE, inside |-> {}]
    [] b = "life" -> [groups |-> 2, ends_e |-> TRUE, adj |-> FALSE, ly |-> FALSE, inside |-> {}]
    [] b = "love" -> [groups |-> 2, ends_e |-> TRUE, adj |-> FALSE, ly |-> FALSE, inside |-> {"love"}]
    [] b = "made" -> [groups |-> 2, ends_e |-> TRUE, adj |-> FALSE, ly |-> FALSE, inside |-> {"mad"}]
    [] b = "must" -> [groups |-> 1, ends_e |-> FALSE, adj |-> FALSE, ly |-> FALSE, inside |-> {}]
    [] b = "nothing" -> [groups |-> 2, ends_e |-> FALSE, adj |-> FALSE, ly |-> FALSE, inside |-> {}]
    [] b = "problematic" -> [groups |-> 4, ends_e |-> FALSE, adj |-> FALSE, ly |-> FALSE, inside |-> {}]
    [] b = "really" -> [groups |-> 2, ends_e |-> FALSE, adj |-> TRUE, ly |-> TRUE, inside |-> {"really"}]
    [] b = "remains" -> [groups |-> 2, ends_e |-> FALSE, adj |-> FALSE, ly |-> FALSE, inside |-> {}]
    [] b = "sun" -> [groups |-> 1, ends_e |-> FALSE, adj |-> FALSE, ly |-> FALSE, inside |-> {}]
    [] b = "the" -> [groups |-> 1, ends_e |-> TRUE, adj |-> FALSE, ly |-> FALSE, inside |-> {}]
    [] b = "therefore" -> [groups |-> 4, ends_e |-> TRUE, adj |-> FALSE, ly |-> FALSE, inside |-> {"or", "therefore"}]
    [] b = "this" -> [groups |-> 1, ends_e |-> FALSE, adj |-> FALSE, ly |-> FALSE, inside |-> {}]
    [] b = "times" -> [groups |-> 2, ends_e |-> FALSE, adj |-> FALSE, ly |-> FALSE, inside |-> {}]
    [] b = "today" -> [groups |-> 2, ends_e |-> FALSE, adj |-> FALSE, ly |-> FALSE, inside |-> {}]
    [] b = "totally" -> [groups |-> 3, ends_e |-> FALSE, adj |-> TRUE, ly |-> TRUE, inside |-> {"totally"}]
    [] b = "very" -> [groups |-> 2, ends_e |-> FALSE, adj |-> FALSE, ly |-> FALSE, inside |-> {}]
    [] b = "vibes" -> [groups |-> 2, ends_e |-> FALSE, adj |-> FALSE, ly |-> FALSE, inside |-> {}]
    [] b = "was" -> [groups |-> 1, ends_e |-> FALSE, adj |-> FALSE, ly |-> FALSE, inside |-> {}]
    [] b = "we" -> [groups |-> 1, ends_e |-> TRUE, adj |-> FALSE, ly |-> FALSE, inside |-> {}]
    [] b = "who" -> [groups |-> 1, ends_e |-> FALSE, adj |-> FALSE, ly |-> FALSE, inside |-> {}]
    [] b = "would" -> [groups |-> 1, ends_e |-> FALSE, adj |-> FALSE, ly |-> FALSE, inside |-> {}]
    [] b = "yeah" -> [groups |-> 1, ends_e |-> FALSE, adj |-> FALSE, ly |-> FALSE, inside |-> {"yeah"}]

(***************************************************************************)
(* StyleAnalyzer (services/ai/style_analyzer.py): the word lists.          *)
(***************************************************************************)
StopWords ==
    {"a", "an", "and", "are", "as", "at", "be", "by", "for", "from",
     "has", "he", "in", "is", "it", "its", "of", "on", "that", "the",
     "to", "was", "were", "will", "with", "she", "her", "his", "him",
     "they", "them", "their", "we", "us", "our", "you", "your", "i",
     "me", "my", "this", "these", "those", "there", "where", "when",
     "what", "why", "how", "can", "could", "would", "should", "may",
     "might", "must", "shall", "do", "does", "did", "have", "had"}

Emotions == <<"joy", "sadness", "anger", "fear", "love", "surprise">>

EmotionWords(emotion) ==
    CASE emotion = "joy" ->
           <<"happy", "excited", "thrilled", "delighted", "cheerful", "elated", "joyful", "ecstatic">>
      [] emotion = "sadness" ->
           <<"sad", "depressed", "melancholy", "gloomy", "sorrowful", "heartbroken", "dejected">>
      [] emotion = "anger" ->
           <<"angry", "furious", "irritated", "annoyed", "rage", "mad", "outraged", "livid">>
      [] emotion = "fear" ->
           <<"scared", "afraid", "terrified", "anxious", "worried", "nervous", "frightened">>
      [] emotion = "love" ->
           <<"love", "adore", "cherish", "treasure", "devoted", "affectionate", "fond">>
      [] emotion = "surprise" ->
           <<"surprised", "shocked", "amazed", "astonished", "stunned", "bewildered">>

FormalWords ==
    {"therefore", "furthermore", "consequently", "moreover", "nevertheless",
     "however", "indeed", "thus", "hence", "accordingly", "subsequently"}

InformalWords ==
    {"i'm", "don't", "can't", "won't", "isn't", "aren't", "wasn't", "weren't",
     "gonna", "wanna", "gotta", "yeah", "ok", "okay", "totally", "really"}

StructureConjunctions ==
    {"and", "but", "or", "so", "yet", "for", "nor", "because", "although",
     "since", "while", "if", "unless", "when", "where", "after", "before"}

PositiveWords ==
    {"good", "great", "excellent", "amazing", "wonderful", "fantastic",
     "love", "like", "enjoy", "happy", "pleased"}

NegativeWords ==
    {"bad", "terrible", "awful", "horrible", "hate", "dislike", "sad",
     "angry", "disappointed", "upset"}

(***************************************************************************)
(* StyleAnalyzer.analyze_writing_sample and its helpers (lines 42-278).    *)
(***************************************************************************)
\* _clean_text(text).split(): the words as Python sees them, each with the
\* terminators stuck to it (end); terminators that open the text make a
\* word with no letters.
RECURSIVE RawAcc(_, _)
RawAcc(text, acc) ==
    IF text = <<>> THEN acc
    ELSE LET t == Head(text)
             n == Len(acc)
         IN  IF ~IsTerminator(t)
             THEN RawAcc(Tail(text),
                         Append(acc, [b |-> t.b, cap |-> t.cap, tail |-> t.tail, end |-> <<>>]))
             ELSE IF n = 0
             THEN RawAcc(Tail(text),
                         <<[b |-> "", cap |-> FALSE, tail |-> "", end |-> <<t.b>>]>>)
             ELSE RawAcc(Tail(text),
                         [acc EXCEPT ![n].end = Append(acc[n].end, t.b)])

RawWords(text) == RawAcc(text, <<>>)

\* len(word), word.isalpha(), word.lower()
RawLen(w) == Len(w.b) + Len(w.tail) + Len(w.end)
IsAlpha(w) == w.b # "" /\ w.tail = "" /\ w.end = <<>>
RawLower(w) == [b |-> w.b, tail |-> w.tail, end |-> w.end]

\* `word in text_lower`: word occurs somewhere in the lower-cased text
OccursIn(word, text) ==
    \E i \in 1..Len(text) : ~IsTerminator(text[i]) /\ word \in Facts(text[i].b).inside

\* _split_into_sentences (lines 101-105)
SplitIntoSentences(text) == SplitSentences(text)

\* _count_syllables (lines 120-136)
CountSyllables(w) ==
    LET syllable_count == Facts(w.b).groups
        ends_e == Facts(w.b).ends_e /\ w.tail = "" /\ w.end = <<>>
    IN  Max(1, IF ends_e /\ syllable_count > 1 THEN syllable_count - 1
               ELSE syllable_count)

\* A mutant of line 118: the score is returned as computed.
CalculateFleschScoreUnclamped(words, sentences) ==
    IF words = <<>> \/ sentences = <<>> THEN Whole(50)
    ELSE LET total_syllables ==
                 SumSeq([i \in 1..Len(words) |-> CountSyllables(words[i])])
             avg_sentence_length == Rat(Len(words), Len(sentences))
             avg_syllables_per_word == Rat(total_syllables, Len(words))
         IN  RSub(RSub(Rat(206835, 1000),
                       RMul(Rat(1015, 1000), avg_sentence_length)),
                  RMul(Rat(846, 10), avg_syllables_per_word))

\* _calculate_flesch_score (lines 107-118)
CalculateFleschScore(words, sentences) ==
    IF words = <<>> \/ sentences = <<>> THEN Whole(50)
    ELSE LET total_syllables ==
                 SumSeq([i \in 1..Len(words) |-> CountSyllables(words[i])])
             avg_sentence_length == Rat(Len(words), Len(sentences))
             avg_syllables_per_word == Rat(total_syllables, Len(words))
             score == RSub(RSub(Rat(206835, 1000),
                                RMul(Rat(1015, 1000), avg_sentence_length)),
                           RMul(Rat(846, 10), avg_syllables_per_word))
         IN  RMax(Whole(0), RMin(Whole(100), score))

\* _calculate_grade_level (lines 138-152)
CalculateGradeLevel(flesch_score) ==
    IF ~RLess(flesch_score, Whole(90)) THEN Whole(5)
    ELSE IF ~RLess(flesch_score, Whole(80)) THEN Whole(6)
    ELSE IF ~RLess(flesch_score, Whole(70)) THEN Whole(7)
    ELSE IF ~RLess(flesch_score, Whole(60)) THEN Rat(17, 2)
    ELSE IF ~RLess(flesch_score, Whole(50)) THEN Whole(10)
    ELSE IF ~RLess(flesch_score, Whole(30)) THEN Whole(13)
    ELSE Whole(16)

\* _analyze_sentence_structures (lines 154-177)
Clauses(sentence) ==
    Max(1, Cardinality({i \in 1..Len(sentence) :
                          sentence[i].b \in StructureConjunctions}) + 1)

StructureOf(sentence) ==
    IF Clauses(sentence) = 1 THEN "simple"
    ELSE IF \E w \in {"and", "but", "or"} : OccursIn(w, sentence) THEN "compound"
    ELSE "complex"

AnalyzeSentenceStructures(sentences) ==
    LET n(kind) == Cardinality({i \in 1..Len(sentences) : StructureOf(sentences[i]) = kind})
    IN  [simple |-> n("simple"),
         compound |-> n("compound"),
         complex |-> n("complex"),
         avg_clauses_per_sentence |->
             Rat(SumSeq([i \in 1..Len(sentences) |-> Clauses(sentences[i])]),
                 Max(Len(sentences), 1))]

\* text.count of a terminator, of '...' and of a mark stuck to a word
CountTerminator(text, ch) == Cardinality({i \in 1..Len(text) : text[i].b = ch})

RECURSIVE CountEllipsis(_)
CountEllipsis(end) ==
    IF Len(end) < 3 THEN 0
    ELSE IF end[1] = "." /\ end[2] = "." /\ end[3] = "."
    THEN 1 + CountEllipsis(SubSeq(end, 4, Len(end)))
    ELSE CountEllipsis(Tail(end))

CountMark(text, ch) ==
    SumSeq([i \in 1..Len(text) |->
              IF IsTerminator(text[i]) THEN 0
              ELSE IF text[i].tail = ch THEN 1
              ELSE IF text[i].tail = ch \o ch THEN 2
              ELSE 0])

\* _analyze_punctuation (lines 179-189)
AnalyzePunctuation(text) ==
    LET words == RawWords(text)
    IN  [exclamation_marks |-> CountTerminator(text, "!"),
         question_marks |-> CountTerminator(text, "?"),
         ellipsis |-> SumSeq([i \in 1..Len(words) |-> CountEllipsis(words[i].end)]),
         semicolons |-> CountMark(text, ";"),
         colons |-> CountMark(text, ":"),
         dashes |-> 0,
         parentheses |-> 0,
         quotation_marks |-> 0]

\* re.findall(rf'.{0,20}\b{word}\b.{0,20}', text_lower): one context
\* snippet for each whole-word occurrence
Snippets(word, text) ==
    LET at == SelectSeq([i \in 1..Len(text) |-> i],
                        LAMBDA i : ~IsTerminator(text[i]) /\ text[i].b = word)
    IN  [j \in 1..Len(at) |-> [word |-> word, at |-> at[j]]]

\* _analyze_emotional_language (lines 191-202): emotions_found[emotion]
\* is created by the first word of the emotion that occurs in the text,
\* as a substring, and gets the whole-word matches of each such word.
\* found is <<>> while the emotion has no key and <<snippets>> once it has.
RECURSIVE EmotionScan(_, _, _)
EmotionScan(words, text, found) ==
    IF words = <<>> THEN found
    ELSE EmotionScan(Tail(words), text,
                     IF ~OccursIn(Head(words), text) THEN found
                     ELSE IF found = <<>> THEN <<Snippets(Head(words), text)>>
                     ELSE <<found[1] \o Snippets(Head(words), text)>>)

RECURSIVE EmotionLoop(_, _, _)
EmotionLoop(emotions, text, emotions_found) ==
    IF emotions = <<>> THEN emotions_found
    ELSE LET got == EmotionScan(EmotionWords(Head(emotions)), text, <<>>)
         IN  EmotionLoop(Tail(emotions), text,
                         IF got = <<>> THEN emotions_found
                         ELSE Append(emotions_found, Item(Head(emotions), got[1])))

AnalyzeEmotionalLanguage(text) == EmotionLoop(Emotions, text, <<>>)

\* _calculate_formality (lines 204-211)
CalculateFormality(text) ==
    LET formal_count == Cardinality({w \in FormalWords : OccursIn(w, text)})
        informal_count == Cardinality({w \in InformalWords : OccursIn(w, text)})
    IN  IF formal_count + informal_count = 0 THEN Rat(1, 2)
        ELSE Rat(formal_count, formal_count + informal_count)

\* _get_frequent_words (lines 213-219)
GetFrequentWords(words, top_n) ==
    LET kept == SelectSeq(words, LAMBDA w : IsAlpha(w) /\ w.b \notin StopWords /\ RawLen(w) > 2)
    IN  MostCommon(CounterOf([i \in 1..Len(kept) |-> kept[i].b]), top_n)

\* _get_frequent_phrases (lines 221-228): re.findall(r'\b\w+\b') gives the
\* letters of every word; a phrase is the tuple of its words
GetFrequentPhrases(text, top_n) ==
    LET toks == SelectSeq(text, LAMBDA t : ~IsTerminator(t))
        words == [i \in 1..Len(toks) |-> toks[i].b]
        bigrams == [i \in 1..Max(Len(words) - 1, 0) |-> <<words[i], words[i + 1]>>]
        trigrams == [i \in 1..Max(Len(words) - 2, 0) |-> <<words[i], words[i + 1], words[i + 2]>>]
    IN  MostCommon(CounterOf(bigrams \o trigrams), top_n)

\* _analyze_pos_patterns_simple (lines 230-237)
AnalyzePosPatternsSimple(words) ==
    LET plain(w) == w.tail = "" /\ w.end = <<>>
        n == Max(Len(words), 1)
    IN  [adjective_ratio |->
             Rat(Cardinality({i \in 1..Len(words) : plain(words[i]) /\ Facts(words[i].b).adj}), n),
         adverb_ratio |->
             Rat(Cardinality({i \in 1..Len(words) : plain(words[i]) /\ Facts(words[i].b).ly}), n),
         estimated_complexity |->
             Rat(Cardinality({RawLower(words[i]) : i \in {j \in 1..Len(words) : RawLen(words[j]) > 6}}), n)]

\* _analyze_sentiment_simple (lines 239-259)
AnalyzeSentimentSimple(text) ==
    LET pos_count == Cardinality({w \in PositiveWords : OccursIn(w, text)})
        neg_count == Cardinality({w \in NegativeWords : OccursIn(w, text)})
        total_sentiment_words == pos_count + neg_count
    IN  [polarity |-> IF total_sentiment_words = 0 THEN Whole(0)
                      ELSE Rat(pos_count - neg_count, total_sentiment_words),
         subjectivity |-> RMin(Whole(1), Rat(total_sentiment_words, 100))]

EmbeddingSize == 32

\* lines 266-273: the eight features
StyleFeatures(text, words, sentences) ==
    <<Rat(Len(words), 1000),
      Rat(Len(sentences), 100),
      RDiv(Rat(Len(words), Max(Len(sentences), 1)), 20),
      RDiv(Rat(SumSeq([i \in 1..Len(words) |-> RawLen(words[i])]),
               Max(Len(words), 1)), 10),
      Rat(CountTerminator(text, "!"), 10),
      Rat(CountTerminator(text, "?"), 10),
      CalculateFormality(text),
      Rat(Cardinality({RawLower(words[i]) : i \in 1..Len(words)}),
          Max(Len(words), 1))>>

\* lines 275-276: while len(features) < 32: features.append(0.0)
RECURSIVE PadFeatures(_)
PadFeatures(features) ==
    IF Len(features) < EmbeddingSize
    THEN PadFeatures(Append(features, Whole(0)))
    ELSE features

\* line 277: features[:32]
Truncate(features) ==
    IF Len(features) > EmbeddingSize THEN SubSeq(features, 1, EmbeddingSize)
    ELSE features

\* A mutant of lines 275-276: the features are returned without padding.
GetStyleEmbeddingUnpadded(text, words, sentences) ==
    Truncate(StyleFeatures(text, words, sentences))

\* _get_style_embedding_simple (lines 261-278)
GetStyleEmbeddingSimple(text, words, sentences) ==
    LET features == PadFeatures(StyleFeatures(text, words, sentences))
    IN  Truncate(features)

\* analyze_writing_sample (lines 42-94)
AnalyzeWritingSample(text) ==
    LET words == RawWords(text)
        sentences == SplitIntoSentences(text)
        word_count == Len(words)
        sentence_count == Len(sentences)
        unique_words == {words[i].b : i \in {j \in 1..Len(words) : IsAlpha(words[j])}}
        flesch_score == CalculateFleschScore(words, sentences)
    IN  [word_count |-> word_count,
         sentence_count |-> sentence_count,
         avg_sentence_length |-> Rat(word_count, Max(sentence_count, 1)),
         avg_word_length |->
             Rat(SumSeq([i \in 1..Len(words) |-> RawLen(words[i])]), Max(word_count, 1)),
         flesch_reading_ease |-> flesch_score,
         flesch_kincaid_grade |-> CalculateGradeLevel(flesch_score),
         unique_words |-> Cardinality(unique_words),
         vocabulary_richness |-> Rat(Cardinality(unique_words), Max(word_count, 1)),
         sentence_structures |-> AnalyzeSentenceStructures(sentences),
         punctuation_usage |-> AnalyzePunctuation(text),
         emotional_language |-> AnalyzeEmotionalLanguage(text),
         formality_score |-> CalculateFormality(text),
         frequent_words |-> GetFrequentWords(words, 20),
         frequent_phrases |-> GetFrequentPhrases(text, 10),
         pos_patterns |-> AnalyzePosPatternsSimple(words),
         sentiment |-> AnalyzeSentimentSimple(text),
         style_embedding |-> GetStyleEmbeddingSimple(text, words, sentences)]

(***************************************************************************)
(* StyleAnalyzer.build_user_style_profile and its helpers (lines 280-401). *)
(***************************************************************************)
Field(analyses, name) == [i \in 1..Len(analyses) |-> analyses[i][name]]

\* A mutant of the thresholds: a mean of 0.7 is formal and one of 0.4 casual.
DetermineFormalityPreferenceInclusive(analyses) ==
    LET avg_formality == Mean(Field(analyses, "formality_score"))
    IN  IF ~RLess(avg_formality, Rat(7, 10)) THEN "formal"
        ELSE IF ~RLess(Rat(4, 10), avg_formality) THEN "casual"
        ELSE "neutral"

\* _determine_formality_preference (lines 304-313)
DetermineFormalityPreference(analyses) ==
    LET avg_formality == Mean(Field(analyses, "formality_score"))
    IN  IF RLess(Rat(7, 10), avg_formality) THEN "formal"
        ELSE IF RLess(avg_formality, Rat(4, 10)) THEN "casual"
        ELSE "neutral"

\* _determine_vocabulary_level (lines 315-324)
DetermineVocabularyLevel(analyses) ==
    LET avg_grade_level == Mean(Field(analyses, "flesch_kincaid_grade"))
    IN  IF RLess(Whole(12), avg_grade_level) THEN "advanced"
        ELSE IF RLess(Whole(8), avg_grade_level) THEN "intermediate"
        ELSE "simple"

\* _build_emotional_patterns (lines 326-333): all_patterns[emotion] is
\* extended by the contexts of every analysis, in order
BuildEmotionalPatterns(analyses) ==
    LET groups == Grouped(Flatten([i \in 1..Len(analyses) |->
                                     analyses[i].emotional_language]))
        all_patterns == [r \in 1..Len(groups) |-> Item(groups[r].k, Flatten(groups[r].v))]
    IN  SubSeq(all_patterns, 1, Len(all_patterns))

\* _determine_structure_preference (lines 335-350)
DetermineStructurePreference(analyses) ==
    LET total(kind) ==
            SumSeq([i \in 1..Len(analyses) |-> analyses[i].sentence_structures[kind]])
        total_sentences == total("simple") + total("compound") + total("complex")
    IN  [simple |-> Rat(total("simple"), Max(total_sentences, 1)),
         compound |-> Rat(total("compound"), Max(total_sentences, 1)),
         complex |-> Rat(total("complex"), Max(total_sentences, 1))]

\* all[key] += count for every item of every analysis's most_common list
MergeCounts(analyses, name) ==
    Tally(Flatten([i \in 1..Len(analyses) |-> analyses[i][name]]))

\* _get_overall_word_preferences (lines 352-360)
GetOverallWordPreferences(analyses) ==
    MostCommon(MergeCounts(analyses, "frequent_words"), 30)

\* _get_overall_phrase_preferences (lines 362-369)
GetOverallPhrasePreferences(analyses) ==
    MostCommon(MergeCounts(analyses, "frequent_phrases"), 20)

PunctuationTypes ==
    {"exclamation_marks", "question_marks", "ellipsis", "semicolons",
     "colons", "dashes", "parentheses", "quotation_marks"}

\* _determine_punctuation_style (lines 371-386): per 1000 words
DeterminePunctuationStyle(analyses) ==
    LET word_count_total == SumSeq(Field(analyses, "word_count"))
    IN  [punct_type \in PunctuationTypes |->
            Rat(1000 * SumSeq([i \in 1..Len(analyses) |->
                                 analyses[i].punctuation_usage[punct_type]]),
                Max(word_count_total, 1))]

\* A mutant of np.std: the sample deviation, with N - 1 for N.
VarianceOfSample(xs) ==
    LET m == Mean(xs)
    IN  RDiv(RSum([i \in 1..Len(xs) |-> RMul(RSub(xs[i], m), RSub(xs[i], m))]),
             Max(Len(xs) - 1, 1))

\* np.std squared: the mean of the squared distances to the mean
Variance(xs) ==
    LET m == Mean(xs)
    IN  Mean([i \in 1..Len(xs) |-> RMul(RSub(xs[i], m), RSub(xs[i], m))])

\* _determine_sentiment_tendencies (lines 388-396).  1 - np.std(polarities)
\* is kept as the variance it is one minus the square root of.
DetermineSentimentTendencies(analyses) ==
    LET polarities == [i \in 1..Len(analyses) |-> analyses[i].sentiment.polarity]
        subjectivities == [i \in 1..Len(analyses) |-> analyses[i].sentiment.subjectivity]
    IN  [avg_polarity |-> Mean(polarities),
         avg_subjectivity |-> Mean(subjectivities),
         sentiment_consistency |-> [one_minus_sqrt |-> Variance(polarities)]]

\* _create_average_embedding (lines 398-401)
CreateAverageEmbedding(analyses) ==
    [k \in 1..Len(analyses[1].style_embedding) |->
        Mean([i \in 1..Len(analyses) |-> analyses[i].style_embedding[k]])]

\* A mutant of the count: equal analyses are counted once.
SampleCountDistinct(sample_analyses) ==
    Cardinality({sample_analyses[i] : i \in 1..Len(sample_analyses)})

\* line 285: 'sample_count': len(sample_analyses)
SampleCount(sample_analyses) == Len(sample_analyses)

\* What a call gives its caller: kind "returned" with the value (an
\* exception would be kind "raised").
Value(v) == [kind |-> "returned", value |-> v]

\* The empty dict {}.
EmptyDict == <<>>

\* build_user_style_profile (lines 280-302)
BuildUserStyleProfile(sample_analyses) ==
    IF sample_analyses = <<>> THEN Value(EmptyDict)
    ELSE Value(
        [sample_count |-> SampleCount(sample_analyses),
         avg_sentence_length |-> Mean(Field(sample_analyses, "avg_sentence_length")),
         avg_word_length |-> Mean(Field(sample_analyses, "avg_word_length")),
         vocabulary_richness |-> Mean(Field(sample_analyses, "vocabulary_richness")),
         avg_readability |-> Mean(Field(sample_analyses, "flesch_reading_ease")),
         grade_level |-> Mean(Field(sample_analyses, "flesch_kincaid_grade")),
         formality_preference |-> DetermineFormalityPreference(sample_analyses),
         vocabulary_level |-> DetermineVocabularyLevel(sample_analyses),
         emotional_expression_patterns |-> BuildEmotionalPatterns(sample_analyses),
         sentence_structure_preference |-> DetermineStructurePreference(sample_analyses),
         preferred_words |-> GetOverallWordPreferences(sample_analyses),
         preferred_phrases |-> GetOverallPhrasePreferences(sample_analyses),
         punctuation_style |-> DeterminePunctuationStyle(sample_analyses),
         sentiment_tendencies |-> DetermineSentimentTendencies(sample_analyses),
         style_embedding |-> CreateAverageEmbedding(sample_analyses)])

(***************************************************************************)
(* Inputs of SpecAggregate: lists of the analyses of the model's samples.  *)
(***************************************************************************)
\* the longest list of sample analyses tried
MaxAnalyses == 3

AnalysisOf == [key \in ContentKeys |-> AnalyzeWritingSample(TextOf(key))]

AnalysisLists ==
    UNION {[1..n -> {AnalysisOf[key] : key \in ContentKeys}] : n \in 0..MaxAnalyses}

\* Analyses the extractor gives for texts outside the catalogue, as far as
\* the aggregator's thresholds see them: formality scores of 1/10, 4/10,
\* 7/10 and 9/10 (1, 4, 7 or 9 formal words among 10 formal and informal
\* ones) and polarities of -1 and 1 (only negative, only positive words);
\* and the analysis of the empty text.
SyntheticScores == {Rat(1, 10), Rat(4, 10), Rat(7, 10), Rat(9, 10)}
SyntheticPolarities == {Whole(-1), Whole(1)}
SyntheticAnalyses ==
    {[AnalysisOf["S4"] EXCEPT !.formality_score = score] : score \in SyntheticScores}
    \cup {[AnalysisOf["S4"] EXCEPT !.sentiment.polarity = polarity] :
              polarity \in SyntheticPolarities}
    \cup {AnalyzeWritingSample(<<>>)}
SyntheticLists == UNION {[1..n -> SyntheticAnalyses] : n \in 1..MaxAnalyses}

NoValue == Value(EmptyDict)

AIdle == apc = "idle" /\ ainput = <<>> /\ aout = NoValue

\* a caller has a list of sample analyses
AInput ==
    /\ apc = "idle"
    /\ ainput' \in AnalysisLists
    /\ apc' = "input"
    /\ aout' = NoValue
    /\ UNCHANGED <<ovars, rvars, dvars, fvars, gvars, xvars, svars, cvars>>

\* a caller has a list of analyses of texts outside the catalogue
AInputSynthetic ==
    /\ apc = "idle"
    /\ ainput' \in SyntheticLists
    /\ apc' = "input"
    /\ aout' = NoValue
    /\ UNCHANGED <<ovars, rvars, dvars, fvars, gvars, xvars, svars, cvars>>

\* build_user_style_profile runs
ABuild ==
    /\ apc = "input"
    /\ aout' = BuildUserStyleProfile(ainput)
    /\ apc' = "done"
    /\ UNCHANGED ainput
    /\ UNCHANGED <<ovars, rvars, dvars, fvars, gvars, xvars, svars, cvars>>

\* the caller has the result
AReturn ==
    /\ apc = "done"
    /\ apc' = "idle" /\ ainput' = <<>> /\ aout' = NoValue
    /\ UNCHANGED <<ovars, rvars, dvars, fvars, gvars, xvars, svars, cvars>>

ANext == AInput \/ AInputSynthetic \/ ABuild \/ AReturn

(***************************************************************************)
(* The database (models/user.py) and the request handlers of               *)
(* controllers/samples.py and controllers/generation.py.  A handler is an  *)
(* async function without an await: it runs from its first line to its     *)
(* response before the next request starts.  A handler is an operator      *)
(* from the committed rows db, the authenticated user and the request to   *)
(* the rows committed when it ends and its response.                       *)
(***************************************************************************)
\* the authenticated users: controllers.auth.get_current_user gives the id
Users == {1, 2}

\* the largest id a writing_samples, generated_content or feedback_history
\* row gets
MaxSamples == 1
MaxGenerated == 1
MaxFeedbacks == 1

\* Python's None
None == "None"

\* the committed rows
Database(s, p, g, f) == [samples |-> s, profiles |-> p, generated |-> g, feedbacks |-> f]

\* Integer primary key of a new row: one more than the largest id of the
\* table, whose rows are kept in id order.
NextId(rows) == IF rows = <<>> THEN 1 ELSE rows[Len(rows)].id + 1

\* query(...).filter(column == value).all() and .first()
OfUser(rows, user) == SelectSeq(rows, LAMBDA row : row.user_id = user)
HasId(rows, id, user) == \E i \in 1..Len(rows) : rows[i].id = id /\ rows[i].user_id = user
IndexOfUser(rows, user) == CHOOSE i \in 1..Len(rows) :
    /\ rows[i].user_id = user
    /\ \A j \in 1..(i - 1) : rows[j].user_id # user
IndexOfId(rows, id) == CHOOSE i \in 1..Len(rows) : rows[i].id = id

\* The session is closed when the request ends: what it held and did not
\* commit is gone.
GetDbClose(committed, pending) == committed

\* A response: 200 with a body, or HTTPException(status_code, detail).
Ok(op, user, body) == [op |-> op, user |-> user, status |-> 200, detail |-> None, body |-> body]
HTTPException(op, user, status_code, detail) ==
    [op |-> op, user |-> user, status |-> status_code, detail |-> detail, body |-> None]
NoResponse == [op |-> None, user |-> 0, status |-> 0, detail |-> None, body |-> None]

\* len(text): the characters of the tokens and one space between two words
CharLen(text) ==
    SumSeq([i \in 1..Len(text) |-> Len(text[i].b) + Len(text[i].tail)])
    + Max(Len(RawWords(text)) - 1, 0)

(***************************************************************************)
(* controllers/samples.py                                                  *)
(***************************************************************************)
MinSampleChars == 50

\* A mutant of upload_writing_sample: the row is stored before the length
\* is looked at.
UploadWritingSampleStoresFirst(db, user, content) ==
    LET db_sample == [id |-> NextId(db.samples), user_id |-> user,
                      content |-> content, analyzed |-> FALSE]
        stored == [db EXCEPT !.samples = Append(@, db_sample)]
    IN  IF CharLen(TextOf(content)) < MinSampleChars
        THEN [db |-> stored,
              resp |-> HTTPException("upload", user, 400,
                           <<"Writing sample must be at least 50 characters long">>)]
        ELSE [db |-> stored,
              resp |-> Ok("upload", user,
                          [id |-> db_sample.id, content |-> content, analyzed |-> FALSE])]

\* upload_writing_sample (lines 34-65); content names a text of TextOf
UploadWritingSample(db, user, content) ==
    IF CharLen(TextOf(content)) < MinSampleChars
    THEN [db |-> db,
          resp |-> HTTPException("upload", user, 400,
                       <<"Writing sample must be at least 50 characters long">>)]
    ELSE LET db_sample == [id |-> NextId(db.samples), user_id |-> user,
                           content |-> content, analyzed |-> FALSE]
         IN  [db |-> [db EXCEPT !.samples = Append(@, db_sample)],
              resp |-> Ok("upload", user,
                          [id |-> db_sample.id, content |-> content, analyzed |-> FALSE])]

\* lines 85-89: every sample of the user is analyzed and flagged
MarkAnalyzed(rows, user) ==
    [i \in 1..Len(rows) |->
        IF rows[i].user_id = user THEN [rows[i] EXCEPT !.analyzed = TRUE] ELSE rows[i]]

\* A mutant of the update: the embedding of the old profile stays.
UpdateProfileKeepsEmbedding(existing_profile, style_profile) ==
    [existing_profile EXCEPT
        !.vocabulary_level = style_profile.vocabulary_level,
        !.formality_preference = style_profile.formality_preference,
        !.sentence_complexity = style_profile.avg_sentence_length,
        !.emotional_patterns = style_profile.emotional_expression_patterns,
        !.word_preferences = [words |-> style_profile.preferred_words,
                              phrases |-> style_profile.preferred_phrases],
        !.updated_at = "utcnow"]

\* lines 100-109: the existing row takes the new values.  updated_at is
\* "created_at" as long as it is the row's creation time and "utcnow" once
\* line 109 has set it.
UpdateProfile(existing_profile, style_profile) ==
    [existing_profile EXCEPT
        !.vocabulary_level = style_profile.vocabulary_level,
        !.formality_preference = style_profile.formality_preference,
        !.sentence_complexity = style_profile.avg_sentence_length,
        !.emotional_patterns = style_profile.emotional_expression_patterns,
        !.word_preferences = [words |-> style_profile.preferred_words,
                              phrases |-> style_profile.preferred_phrases],
        !.style_embedding = style_profile.style_embedding,
        !.updated_at = "utcnow"]

\* lines 112-123: UserStyleProfile(...)
NewProfile(id, user, style_profile) ==
    [id |-> id, user_id |-> user,
     vocabulary_level |-> style_profile.vocabulary_level,
     formality_preference |-> style_profile.formality_preference,
     sentence_complexity |-> style_profile.avg_sentence_length,
     emotional_patterns |-> style_profile.emotional_expression_patterns,
     word_preferences |-> [words |-> style_profile.preferred_words,
                           phrases |-> style_profile.preferred_phrases],
     style_embedding |-> style_profile.style_embedding,
     updated_at |-> "created_at"]

\* A mutant of the branch: a new row is added whether or not one exists.
StoreProfileAlwaysAdds(rows, user, style_profile) ==
    Append(rows, NewProfile(NextId(rows), user, style_profile))

\* lines 94-124: update the user's row, or add one
StoreProfile(rows, user, style_profile) ==
    IF OfUser(rows, user) # <<>>
    THEN [rows EXCEPT ![IndexOfUser(rows, user)] = UpdateProfile(@, style_profile)]
    ELSE Append(rows, NewProfile(NextId(rows), user, style_profile))

\* db.commit(): what the session holds becomes the committed rows
Commit(committed, pending) == pending

\* the statements of analyze_user_samples's try block that can raise
AnalyzeSteps == {"analyze_writing_sample", "build_user_style_profile", "query", "commit"}

\* analyze_user_samples (lines 67-144).  fail names the statement of the try
\* block that raises, "none" when none does.  The body of the response
\* keeps sample_count and emotional_patterns.
AnalyzeUserSamples(db, user, fail) ==
    LET mine == OfUser(db.samples, user)
        sample_analyses == [i \in 1..Len(mine) |-> AnalysisOf[mine[i].content]]
        style_profile == BuildUserStyleProfile(sample_analyses).value
        flagged == [db EXCEPT !.samples = MarkAnalyzed(@, user)]
        stored == [flagged EXCEPT !.profiles = StoreProfile(@, user, style_profile)]
        pending == IF fail = "analyze_writing_sample" THEN db
                   ELSE IF fail \in {"build_user_style_profile", "query"} THEN flagged
                   ELSE stored
    IN  IF Len(mine) < 1
        THEN [db |-> db,
              resp |-> HTTPException("analyze", user, 400,
                           <<"Need at least 1 writing sample to build style profile">>)]
        ELSE IF fail \in AnalyzeSteps
        THEN [db |-> GetDbClose(db, pending),
              resp |-> HTTPException("analyze", user, 500, <<"Analysis failed", fail>>)]
        ELSE [db |-> Commit(db, pending),
              resp |-> Ok("analyze", user,
                          [sample_count |-> Len(mine),
                           emotional_patterns |->
                               Len(style_profile.emotional_expression_patterns)])]

\* get_user_samples (lines 146-162)
GetUserSamples(db, user) ==
    LET mine == OfUser(db.samples, user)
    IN  [db |-> db,
         resp |-> Ok("samples", user,
                     [i \in 1..Len(mine) |->
                        [id |-> mine[i].id, content |-> mine[i].content,
                         analyzed |-> mine[i].analyzed]])]

\* get_user_style_profile (lines 164-189).  The body keeps the scalar fields.
GetUserStyleProfile(db, user) ==
    IF OfUser(db.profiles, user) = <<>>
    THEN [db |-> db,
          resp |-> HTTPException("profile", user, 404,
                       <<"Style profile not found. Please upload and analyze writing samples first.">>)]
    ELSE LET profile == db.profiles[IndexOfUser(db.profiles, user)]
         IN  [db |-> db,
              resp |-> Ok("profile", user,
                          [user_id |-> profile.user_id,
                           vocabulary_level |-> profile.vocabulary_level,
                           formality_preference |-> profile.formality_preference,
                           sentence_complexity |-> profile.sentence_complexity,
                           sample_count |-> Len(profile.emotional_patterns)])]

\* A mutant of delete_writing_sample: the query filters by id alone.
DeleteWritingSampleOfAnyUser(db, user, sample_id) ==
    IF ~\E i \in 1..Len(db.samples) : db.samples[i].id = sample_id
    THEN [db |-> db,
          resp |-> HTTPException("delete", user, 404, <<"Writing sample not found">>)]
    ELSE [db |-> [db EXCEPT !.samples = SelectSeq(@, LAMBDA row : row.id # sample_id)],
          resp |-> Ok("delete", user, <<"Writing sample deleted successfully">>)]

\* delete_writing_sample (lines 191-209)
DeleteWritingSample(db, user, sample_id) ==
    IF ~HasId(db.samples, sample_id, user)
    THEN [db |-> db,
          resp |-> HTTPException("delete", user, 404, <<"Writing sample not found">>)]
    ELSE [db |-> [db EXCEPT !.samples = SelectSeq(@, LAMBDA row : row.id # sample_id)],
          resp |-> Ok("delete", user, <<"Writing sample deleted successfully">>)]

(***************************************************************************)
(* controllers/generation.py                                               *)
(***************************************************************************)
MinPromptChars == 5
HistoryLimit == 20

\* lines 53-60: the profile as the generator gets it
ProfileDict(style_profile) ==
    [formality_preference |-> style_profile.formality_preference,
     vocabulary_level |-> style_profile.vocabulary_level,
     avg_sentence_length |-> style_profile.sentence_complexity,
     emotional_expression_patterns |-> style_profile.emotional_patterns,
     preferred_words |-> style_profile.word_preferences.words,
     preferred_phrases |-> style_profile.word_preferences.phrases]

\* generate_personalized_content (content_generator.py lines 9-24), given
\* the text the completion client returns for the prompt it is sent
GeneratePersonalizedContent(prompt, user_style_profile, completion) ==
    IF user_style_profile = EmptyDict THEN completion
    ELSE RefineWithStyle(completion, user_style_profile)

\* the statements of generate_content's try block that can raise
GenerateSteps == {"query", "generate_personalized_content", "commit", "refresh"}

\* generate_content (lines 27-92).  completion is the text the completion
\* client returns; fail names the statement of the try block that raises.
GenerateContent(db, user, prompt, completion, fail) ==
    LET failed(cause) ==
            HTTPException("generate", user, 500, <<"Content generation failed", cause>>)
    IN  IF Len(prompt) < MinPromptChars
        THEN [db |-> db,
              resp |-> HTTPException("generate", user, 400,
                           <<"Prompt must be at least 5 characters long">>)]
        ELSE IF fail = "query" THEN [db |-> db, resp |-> failed(fail)]
        ELSE IF OfUser(db.profiles, user) = <<>>
        THEN [db |-> db,
              resp |-> failed("404: Style profile not found. Please upload writing samples first.")]
        ELSE IF fail = "generate_personalized_content" THEN [db |-> db, resp |-> failed(fail)]
        ELSE LET style_profile == db.profiles[IndexOfUser(db.profiles, user)]
                 generated_text ==
                     GeneratePersonalizedContent(prompt, ProfileDict(style_profile), completion)
                 db_content == [id |-> NextId(db.generated), user_id |-> user,
                                prompt |-> prompt, generated_text |-> generated_text,
                                user_feedback |-> None, user_modifications |-> <<>>]
                 pending == [db EXCEPT !.generated = Append(@, db_content)]
             IN  IF fail = "commit"
                 THEN [db |-> GetDbClose(db, pending), resp |-> failed(fail)]
                 ELSE IF fail = "refresh"
                 THEN [db |-> Commit(db, pending), resp |-> failed(fail)]
                 ELSE [db |-> Commit(db, pending),
                       resp |-> Ok("generate", user,
                                   [generated_content |-> generated_text,
                                    content_id |-> db_content.id])]

\* the statements of submit_feedback's try block that can raise
FeedbackSteps == {"query", "adapt_based_on_feedback", "commit"}

\* A mutant of submit_feedback: 'modified' feedback is fed back into the
\* stored profile.
SubmitFeedbackAdaptsProfile(db, user, content_id, feedback_type, modified_content, fail) ==
    IF ~HasId(db.generated, content_id, user)
    THEN [db |-> db,
          resp |-> HTTPException("feedback", user, 404, <<"Generated content not found">>)]
    ELSE LET i == IndexOfId(db.generated, content_id)
             content == db.generated[i]
             learns == feedback_type = "modified" /\ modified_content # <<>>
             has_profile == OfUser(db.profiles, user) # <<>>
             db_feedback == [id |-> NextId(db.feedbacks), user_id |-> user,
                             content_id |-> content_id, feedback_type |-> feedback_type,
                             original_text |-> content.generated_text,
                             modified_text |-> modified_content]
             pending == [db EXCEPT
                 !.generated[i].user_feedback = feedback_type,
                 !.generated[i].user_modifications =
                     IF modified_content # <<>> THEN modified_content ELSE @,
                 !.profiles = IF learns /\ has_profile
                              THEN [@ EXCEPT ![IndexOfUser(@, user)].formality_preference = "adapted"]
                              ELSE @,
                 !.feedbacks = Append(@, db_feedback)]
         IN  IF fail \in FeedbackSteps
             THEN [db |-> GetDbClose(db, pending),
                   resp |-> HTTPException("feedback", user, 500,
                                <<"Failed to submit feedback", fail>>)]
             ELSE [db |-> Commit(db, pending),
                   resp |-> Ok("feedback", user,
                               <<"Feedback submitted successfully. This will help improve future generations.">>)]

\* submit_feedback (lines 94-155).  modified_content is <<>> when the request
\* carries none (None or ""); fail names the statement of the try block that
\* raises.  The profile query and adapt_based_on_feedback run for 'modified'
\* feedback with a modified text only, and the adjustments the latter
\* returns are dropped.
SubmitFeedback(db, user, content_id, feedback_type, modified_content, fail) ==
    IF ~HasId(db.generated, content_id, user)
    THEN [db |-> db,
          resp |-> HTTPException("feedback", user, 404, <<"Generated content not found">>)]
    ELSE LET i == IndexOfId(db.generated, content_id)
             content == db.generated[i]
             learns == feedback_type = "modified" /\ modified_content # <<>>
             has_profile == OfUser(db.profiles, user) # <<>>
             raised == \/ fail = "query" /\ learns
                       \/ fail = "adapt_based_on_feedback" /\ learns /\ has_profile
                       \/ fail = "commit"
             db_feedback == [id |-> NextId(db.feedbacks), user_id |-> user,
                             content_id |-> content_id, feedback_type |-> feedback_type,
                             original_text |-> content.generated_text,
                             modified_text |-> modified_content]
             pending == [db EXCEPT
                 !.generated[i].user_feedback = feedback_type,
                 !.generated[i].user_modifications =
                     IF modified_content # <<>> THEN modified_content ELSE @,
                 !.feedbacks = Append(@, db_feedback)]
         IN  IF raised
             THEN [db |-> GetDbClose(db, pending),
                   resp |-> HTTPException("feedback", user, 500,
                                <<"Failed to submit feedback", fail>>)]
             ELSE [db |-> Commit(db, pending),
                   resp |-> Ok("feedback", user,
                               <<"Feedback submitted successfully. This will help improve future generations.">>)]

\* get_generation_history (lines 157-182): the newest rows first
GetGenerationHistory(db, user) ==
    LET mine == OfUser(db.generated, user)
        n == IF Len(mine) < HistoryLimit THEN Len(mine) ELSE HistoryLimit
    IN  [db |-> db,
         resp |-> Ok("history", user,
                     [k \in 1..n |->
                        LET content == mine[Len(mine) + 1 - k]
                        IN  [id |-> content.id, prompt |-> content.prompt,
                             user_feedback |-> content.user_feedback,
                             has_modifications |-> content.user_modifications # <<>>]])]

\* A mutant of get_user_stats: the feedback-history rows are counted
\* instead of the generations.
GetUserStatsOfHistory(db, user) ==
    LET mine == OfUser(db.generated, user)
        count(feedback) ==
            Len(SelectSeq(OfUser(db.feedbacks, user),
                          LAMBDA row : row.feedback_type = feedback))
        total_generations == Len(mine)
    IN  [db |-> db,
         resp |-> Ok("stats", user,
                     [total_generations |-> total_generations,
                      accepted |-> count("accepted"),
                      modified |-> count("modified"),
                      rejected |-> count("rejected"),
                      acceptance_rate |->
                          Rat(100 * count("accepted"), Max(total_generations, 1)),
                      modification_rate |->
                          Rat(100 * count("modified"), Max(total_generations, 1))])]

\* get_user_stats (lines 184-220)
GetUserStats(db, user) ==
    LET mine == OfUser(db.generated, user)
        count(feedback) == Len(SelectSeq(mine, LAMBDA row : row.user_feedback = feedback))
        total_generations == Len(mine)
    IN  [db |-> db,
         resp |-> Ok("stats", user,
                     [total_generations |-> total_generations,
                      accepted |-> count("accepted"),
                      modified |-> count("modified"),
                      rejected |-> count("rejected"),
                      acceptance_rate |->
                          Rat(100 * count("accepted"), Max(total_generations, 1)),
                      modification_rate |->
                          Rat(100 * count("modified"), Max(total_generations, 1))])]

(***************************************************************************)
(* The requests of Spec.                                                   *)
(***************************************************************************)
\* the texts a client uploads: a formal and a casual one, and one too short
UploadKeys == {"S2", "S3", "S4"}
\* a prompt of 3 characters and one of 14
Prompts == {"Hey", "Write an email"}
\* what the completion client returns
CompletionTexts ==
    {ScenarioText,
     <<Cap("however"), Tok("it"), Tok("works"), Tok("so"), Tok("we"), Tok("ship"), Dot>>}
FeedbackTypes == {"accepted", "modified", "rejected"}
ModifiedTexts == {<<>>, <<Cap("so"), Tok("it"), Tok("works"), Dot>>}

DB == Database(samples, profiles, generated, feedbacks)

DIdle ==
    /\ samples = <<>> /\ profiles = <<>> /\ generated = <<>> /\ feedbacks = <<>>
    /\ resp = NoResponse

\* A request is handled when the client has the response of the one
\* before; when it ends its rows are the committed rows and its response
\* is on its way.
Responds(r) ==
    /\ resp.op = None
    /\ samples' = r.db.samples
    /\ profiles' = r.db.profiles
    /\ generated' = r.db.generated
    /\ feedbacks' = r.db.feedbacks
    /\ resp' = r.resp
    /\ UNCHANGED <<ovars, rvars, avars, fvars, gvars, xvars, svars, cvars>>

Upload ==
    /\ NextId(samples) <= MaxSamples
    /\ \E user \in Users, content \in UploadKeys :
          Responds(UploadWritingSample(DB, user, content))

Analyze ==
    \E user \in Users, fail \in AnalyzeSteps \cup {"none"} :
        Responds(AnalyzeUserSamples(DB, user, fail))

ReadSamples == \E user \in Users : Responds(GetUserSamples(DB, user))

ReadProfile == \E user \in Users : Responds(GetUserStyleProfile(DB, user))

Delete ==
    \E user \in Users, sample_id \in 1..(MaxSamples + 1) :
        Responds(DeleteWritingSample(DB, user, sample_id))

Generate ==
    /\ NextId(generated) <= MaxGenerated
    /\ \E user \in Users, prompt \in Prompts, text \in CompletionTexts,
          fail \in GenerateSteps \cup {"none"} :
          Responds(GenerateContent(DB, user, prompt, text, fail))

Feedback ==
    /\ NextId(feedbacks) <= MaxFeedbacks
    /\ \E user \in Users, content_id \in 1..(MaxGenerated + 1),
          feedback_type \in FeedbackTypes, modified_content \in ModifiedTexts,
          fail \in FeedbackSteps \cup {"none"} :
          Responds(SubmitFeedback(DB, user, content_id, feedback_type, modified_content, fail))

ReadHistory == \E user \in Users : Responds(GetGenerationHistory(DB, user))

ReadStats == \E user \in Users : Responds(GetUserStats(DB, user))

\* the client has the response
Deliver ==
    /\ resp.op # None
    /\ resp' = NoResponse
    /\ UNCHANGED <<samples, profiles, generated, feedbacks>>
    /\ UNCHANGED <<ovars, rvars, avars, fvars, gvars, xvars, svars, cvars>>

(***************************************************************************)
(* The requests of SpecStats: uploads, analyses, up to MaxStatGenerated    *)
(* generations and up to MaxStatFeedbacks feedback submissions that no     *)
(* statement fails, and the stats endpoint.                                *)
(***************************************************************************)
MaxStatGenerated == 2
MaxStatFeedbacks == 2

GenerateAgain ==
    /\ NextId(generated) <= MaxStatGenerated
    /\ \E user \in Users, prompt \in Prompts :
          Responds(GenerateContent(DB, user, prompt, ScenarioText, "none"))

FeedbackAgain ==
    /\ NextId(feedbacks) <= MaxStatFeedbacks
    /\ \E user \in Users, content_id \in 1..MaxStatGenerated,
          feedback_type \in FeedbackTypes :
          Responds(SubmitFeedback(DB, user, content_id, feedback_type, <<>>, "none"))

TNext ==
    \/ Upload \/ Analyze \/ GenerateAgain \/ FeedbackAgain \/ ReadStats \/ Deliver

(***************************************************************************)
(* The requests of SpecProfile: up to MaxProfileSamples uploads, analyses  *)
(* and the get-profile endpoint.                                           *)
(***************************************************************************)
MaxProfileSamples == 2

UploadAgain ==
    /\ NextId(samples) <= MaxProfileSamples
    /\ \E user \in Users, content \in UploadKeys :
          Responds(UploadWritingSample(DB, user, content))

PNext == UploadAgain \/ Analyze \/ ReadProfile \/ Deliver

DNext ==
    \/ Upload \/ Analyze \/ ReadSamples \/ ReadProfile \/ Delete
    \/ Generate \/ Feedback \/ ReadHistory \/ ReadStats \/ Deliver

(***************************************************************************)
(* ContentGenerator.adapt_based_on_feedback (lines 171-200) and its        *)
(* helpers (lines 202-222).                                                *)
(***************************************************************************)
\* formal_words (line 203) and casual_words (line 211)
FeedbackFormalWords ==
    <<"therefore", "however", "furthermore", "consequently", "moreover">>
FeedbackCasualWords ==
    <<"don't", "can't", "won't", "it's", "that's", "gonna", "wanna">>

\* `word in b` for two strings
IsSubstring(word, b) ==
    \E i \in 1..(Len(b) - Len(word) + 1) : SubSeq(b, i, i + Len(word) - 1) = word

\* sum(1 for word in words if word in text.lower()): the words of the list
\* that occur somewhere in the text.  No listed word holds white space or a
\* terminator, so it occurs in the text when it occurs in one of its tokens.
Hits(words, text) ==
    Cardinality({k \in 1..Len(words) :
        \E i \in 1..Len(text) : IsSubstring(words[k], text[i].b \o text[i].tail)})

\* _is_more_formal, _is_more_casual (lines 202-216)
IsMoreFormal(modified, original) ==
    Hits(FeedbackFormalWords, modified) > Hits(FeedbackFormalWords, original)
IsMoreCasual(modified, original) ==
    Hits(FeedbackCasualWords, modified) > Hits(FeedbackCasualWords, original)

\* len(text.split())
WordCount(text) == Len(RawWords(text))

\* A mutant of _uses_simpler_words: the character lengths are not compared.
UsesSimplerWordsByCountOnly(modified, original) ==
    WordCount(modified) > WordCount(original)

\* _uses_simpler_words, _uses_complex_words (lines 218-222)
UsesSimplerWords(modified, original) ==
    WordCount(modified) > WordCount(original) /\ CharLen(modified) < CharLen(original)
UsesComplexWords(modified, original) ==
    WordCount(modified) < WordCount(original) /\ CharLen(modified) > CharLen(original)

\* A mutant of lines 183-186: the bounds themselves count as longer or shorter.
LengthAdjustmentsInclusive(modified, original) ==
    IF 5 * WordCount(modified) >= 6 * WordCount(original)
    THEN <<"prefers_longer_content">>
    ELSE IF 5 * WordCount(modified) <= 4 * WordCount(original)
    THEN <<"prefers_shorter_content">>
    ELSE <<>>

\* lines 183-186.  m > g * 1.2 and m < g * 0.8 on whole numbers m, g are
\* 5m > 6g and 5m < 4g (the float products are whole where the exact ones are).
LengthAdjustments(modified, original) ==
    IF 5 * WordCount(modified) > 6 * WordCount(original)
    THEN <<"prefers_longer_content">>
    ELSE IF 5 * WordCount(modified) < 4 * WordCount(original)
    THEN <<"prefers_shorter_content">>
    ELSE <<>>

\* lines 189-192
FormalityAdjustments(modified, original) ==
    IF IsMoreFormal(modified, original) THEN <<"increase_formality">>
    ELSE IF IsMoreCasual(modified, original) THEN <<"increase_casualness">>
    ELSE <<>>

\* lines 195-198
VocabularyAdjustments(modified, original) ==
    IF UsesSimplerWords(modified, original) THEN <<"prefer_simpler_vocabulary">>
    ELSE IF UsesComplexWords(modified, original) THEN <<"prefer_complex_vocabulary">>
    ELSE <<>>

\* the callers of SpecCalls
Callers == {1, 2}

\* A mutant of lines 175-180: the list of adjustments is one list shared by
\* all calls (the list the first caller's dict holds) instead of a new one.
NewAnalysisSharingList(original_prompt, generated_content, user_modifications) ==
    [prompt |-> original_prompt,
     original_length |-> WordCount(generated_content),
     modified_length |-> WordCount(user_modifications),
     style_adjustments |-> calls[1].analysis.style_adjustments]

\* lines 175-180: the dict a call starts from
NewAnalysis(original_prompt, generated_content, user_modifications) ==
    [prompt |-> original_prompt,
     original_length |-> WordCount(generated_content),
     modified_length |-> WordCount(user_modifications),
     style_adjustments |-> <<>>]

\* feedback_analysis['style_adjustments'].append(...) for each of tags
Appended(feedback_analysis, tags) ==
    [feedback_analysis EXCEPT !.style_adjustments = @ \o tags]

\* adapt_based_on_feedback (lines 171-200), run from its first line to its
\* return
AdaptBasedOnFeedback(original_prompt, generated_content, user_modifications, style_profile) ==
    [prompt |-> original_prompt,
     original_length |-> WordCount(generated_content),
     modified_length |-> WordCount(user_modifications),
     style_adjustments |->
        LengthAdjustments(user_modifications, generated_content)
        \o FormalityAdjustments(user_modifications, generated_content)
        \o VocabularyAdjustments(user_modifications, generated_content)]

\* Inputs of SpecFeedback: up to MaxWords copies of one filler word, then
\* some marker words, then a full stop.
MaxWords == 6
FillerWords == {"a", "extraordinary"}
MarkerTails == {<<>>, <<Tok("therefore")>>, <<Tok("don't")>>,
                <<Cap("however"), Comma("therefore"), Tok("gonna")>>}
FeedbackTexts ==
    {[i \in 1..n |-> Tok(w)] \o tail \o <<Dot>> :
        n \in 0..MaxWords, w \in FillerWords, tail \in MarkerTails}

NoAnalysis ==
    [prompt |-> "", original_length |-> 0, modified_length |-> 0,
     style_adjustments |-> <<>>]

FIdle ==
    /\ fpc = "idle" /\ fprompt = "" /\ fgenerated = <<>> /\ fmodified = <<>>
    /\ fout = NoAnalysis

\* submit_feedback has a generated text and the user's modification of it
FInput ==
    /\ fpc = "idle"
    /\ fprompt' \in Prompts
    /\ fgenerated' \in FeedbackTexts
    /\ fmodified' \in FeedbackTexts
    /\ fpc' = "input"
    /\ fout' = NoAnalysis
    /\ UNCHANGED <<ovars, rvars, avars, dvars, gvars, xvars, svars, cvars>>

\* adapt_based_on_feedback runs
FAdapt ==
    /\ fpc = "input"
    /\ fout' = AdaptBasedOnFeedback(fprompt, fgenerated, fmodified, DefaultProfile)
    /\ fpc' = "done"
    /\ UNCHANGED <<fprompt, fgenerated, fmodified>>
    /\ UNCHANGED <<ovars, rvars, avars, dvars, gvars, xvars, svars, cvars>>

\* the caller has the analysis
FReturn ==
    /\ fpc = "done"
    /\ fpc' = "idle" /\ fprompt' = "" /\ fgenerated' = <<>> /\ fmodified' = <<>>
    /\ fout' = NoAnalysis
    /\ UNCHANGED <<ovars, rvars, avars, dvars, gvars, xvars, svars, cvars>>

FNext == FInput \/ FAdapt \/ FReturn

(***************************************************************************)
(* ContentGenerator.generate_personalized_content (lines 9-24) with        *)
(* _build_style_prompt (lines 26-72) and _generate_generic_content (lines  *)
(* 74-76): the request the completion client is sent.                      *)
(***************************************************************************)
\* dict.get(key, default)
Get(d, key, default) == IF key \in DOMAIN d THEN d[key] ELSE default

\* f"{x:.0f}" of a number x >= 0: the nearest whole number, the even one
\* of the two when x lies halfway
FormatWhole(x) ==
    LET q == x.n \div x.d
        r == x.n - q * x.d
    IN  IF 2 * r < x.d THEN q
        ELSE IF 2 * r > x.d THEN q + 1
        ELSE IF q % 2 = 0 THEN q ELSE q + 1

\* s[:n] of a list
Take(s, n) == SubSeq(s, 1, IF Len(s) < n THEN Len(s) ELSE n)

EmotionalContexts == {"personal", "emotional", "creative"}

\* lines 48-53: the first example of each of the first two emotions, cut to
\* 50 characters
EmotionExamples(emotional_patterns) ==
    LET first == Take(emotional_patterns, 2)
        with_examples == SelectSeq(first, LAMBDA item : item.v # <<>>)
    IN  [i \in 1..Len(with_examples) |->
            [emotion |-> with_examples[i].k, example |-> with_examples[i].v[1],
             chars |-> 50]]

\* lines 56-61: "use" is "Use exclamation marks to show enthusiasm. ",
\* "avoid" is "Avoid excessive exclamation marks, keep tone measured. "
ExclamationDirective(style_profile) ==
    LET punct_style == Get(style_profile, "punctuation_style", EmptyDict)
        exclamation_rate == Get(punct_style, "exclamation_marks", Whole(0))
    IN  IF RLess(Whole(5), exclamation_rate) THEN "use"
        ELSE IF RLess(exclamation_rate, Whole(1)) THEN "avoid"
        ELSE "none"

\* _build_style_prompt: the parts of final_prompt
BuildStylePrompt(user_prompt, style_profile, context) ==
    LET words == Get(style_profile, "preferred_words", <<>>)
        preferred_words == [i \in 1..Len(Take(words, 10)) |-> words[i].k]
        emotional_patterns == Get(style_profile, "emotional_expression_patterns", <<>>)
    IN  [formality |-> Get(style_profile, "formality_preference", "neutral"),
         vocab_level |-> Get(style_profile, "vocabulary_level", "intermediate"),
         avg_sent_length |->
            FormatWhole(Get(style_profile, "avg_sentence_length", Whole(15))),
         incorporate |-> Take(preferred_words, 5),
         emotions |-> IF context \in EmotionalContexts /\ emotional_patterns # <<>>
                      THEN EmotionExamples(emotional_patterns) ELSE <<>>,
         exclamation |-> ExclamationDirective(style_profile),
         user_request |-> user_prompt]

\* line 76: f"Please help with this request: {prompt}"
GenericPrompt(prompt) == "Please help with this request: " \o prompt

\* The request generate_personalized_content makes: generate_text with its
\* default model (line 76), or ollama_client(model="llama2:7b-chat", ...)
\* with the style prompt (line 19).
CompletionRequest(prompt, user_style_profile, context) ==
    IF user_style_profile = EmptyDict
    THEN [model |-> DefaultModel, prompt |-> GenericPrompt(prompt)]
    ELSE [model |-> LargeModel,
          prompt |-> BuildStylePrompt(prompt, user_style_profile, context)]

Contexts == {"general", "creative"}
ProfileLists == AnalysisLists \ {<<>>}
NoRequest == [model |-> None, prompt |-> ""]

GIdle ==
    /\ gpc = "idle" /\ gvia = None /\ gprompt = "" /\ gcontext = "general"
    /\ ganalyses = <<>> /\ gprofile = EmptyDict /\ gcompletion = <<>>
    /\ gsent = NoRequest /\ gout = <<>>

\* a caller without a style profile
GDirectEmpty ==
    /\ gpc = "idle"
    /\ gpc' = "input" /\ gvia' = "direct"
    /\ gprompt' \in Prompts /\ gcontext' \in Contexts
    /\ gcompletion' \in CompletionTexts
    /\ ganalyses' = <<>> /\ gprofile' = EmptyDict
    /\ UNCHANGED <<gsent, gout>>
    /\ UNCHANGED <<ovars, rvars, avars, dvars, fvars, xvars, svars, cvars>>

\* a caller with the profile build_user_style_profile gave
GDirect ==
    /\ gpc = "idle"
    /\ gpc' = "input" /\ gvia' = "direct"
    /\ ganalyses' \in ProfileLists
    /\ gprofile' = BuildUserStyleProfile(ganalyses').value
    /\ gprompt' \in Prompts /\ gcontext' \in Contexts
    /\ gcompletion' \in CompletionTexts
    /\ UNCHANGED <<gsent, gout>>
    /\ UNCHANGED <<ovars, rvars, avars, dvars, fvars, xvars, svars, cvars>>

\* generate_content (controllers/generation.py lines 52-67) with the row
\* analyze_user_samples stored for these analyses
GEndpoint ==
    /\ gpc = "idle"
    /\ gpc' = "input" /\ gvia' = "endpoint"
    /\ ganalyses' \in ProfileLists
    /\ gprofile' = ProfileDict(NewProfile(1, 1, BuildUserStyleProfile(ganalyses').value))
    /\ gprompt' \in {p \in Prompts : Len(p) >= MinPromptChars}
    /\ gcontext' \in Contexts
    /\ gcompletion' \in CompletionTexts
    /\ UNCHANGED <<gsent, gout>>
    /\ UNCHANGED <<ovars, rvars, avars, dvars, fvars, xvars, svars, cvars>>

\* generate_personalized_content runs
GGenerate ==
    /\ gpc = "input"
    /\ gsent' = CompletionRequest(gprompt, gprofile, gcontext)
    /\ gout' = GeneratePersonalizedContent(gprompt, gprofile, gcompletion)
    /\ gpc' = "done"
    /\ UNCHANGED <<gvia, gprompt, gcontext, ganalyses, gprofile, gcompletion>>
    /\ UNCHANGED <<ovars, rvars, avars, dvars, fvars, xvars, svars, cvars>>

\* the caller has the text
GReturn ==
    /\ gpc = "done"
    /\ gpc' = "idle" /\ gvia' = None /\ gprompt' = "" /\ gcontext' = "general"
    /\ ganalyses' = <<>> /\ gprofile' = EmptyDict /\ gcompletion' = <<>>
    /\ gsent' = NoRequest /\ gout' = <<>>
    /\ UNCHANGED <<ovars, rvars, avars, dvars, fvars, xvars, svars, cvars>>

GNext == GDirectEmpty \/ GDirect \/ GEndpoint \/ GGenerate \/ GReturn

(***************************************************************************)
(* Inputs of SpecAnalyze: the catalogue's texts, texts without words or    *)
(* sentences, and one-sentence texts of up to MaxRepeat words of one, of   *)
(* two and of four syllables each.                                         *)
(***************************************************************************)
MaxRepeat == 4

Repeat(b, n) == [i \in 1..n |-> Tok(b)]

AnalyzeTexts ==
    {TextOf(key) : key \in ContentKeys}
    \cup {<<>>, <<Dot>>, <<Tok("!"), Tok("?")>>}
    \cup {Repeat("was", n1) \o Repeat("about", n2) \o Repeat("problematic", n4) \o <<Dot>> :
            n1 \in 0..MaxRepeat, n2 \in 0..MaxRepeat, n4 \in 0..MaxRepeat}

XIdle == xpc = "idle" /\ xtext = <<>> /\ xout = EmptyDict

\* a caller has a text
XInput ==
    /\ xpc = "idle"
    /\ xtext' \in AnalyzeTexts
    /\ xpc' = "input"
    /\ xout' = EmptyDict
    /\ UNCHANGED <<ovars, rvars, avars, dvars, fvars, gvars, svars, cvars>>

\* analyze_writing_sample runs
XAnalyze ==
    /\ xpc = "input"
    /\ xout' = AnalyzeWritingSample(xtext)
    /\ xpc' = "done"
    /\ UNCHANGED xtext
    /\ UNCHANGED <<ovars, rvars, avars, dvars, fvars, gvars, svars, cvars>>

\* the caller has the analysis
XReturn ==
    /\ xpc = "done"
    /\ xpc' = "idle" /\ xtext' = <<>> /\ xout' = EmptyDict
    /\ UNCHANGED <<ovars, rvars, avars, dvars, fvars, gvars, svars, cvars>>

XNext == XInput \/ XAnalyze \/ XReturn

(***************************************************************************)
(* Inputs of SpecSubstitute: texts of up to MaxSubLen tokens, each one of  *)
(* the nine words of the two maps, in lower case or capitalised, a word    *)
(* followed by a comma, a replacement, a word that only contains "so", or  *)
(* a full stop.                                                            *)
(***************************************************************************)
MaxSubLen == 2

MapWords ==
    {"therefore", "however", "furthermore", "consequently", "nevertheless",
     "so", "but", "also", "anyway"}

SubTokens ==
    {Tok(w) : w \in MapWords} \cup {Cap(w) : w \in MapWords}
    \cup {Comma("however"), Comma("so"), Tok("still"), Tok("nonetheless"),
          Tok("sofa"), Cap("fine"), Dot}

SubTexts == UNION {[1..n -> SubTokens] : n \in 0..MaxSubLen}

NoSubstitution == [once |-> <<>>, twice |-> <<>>]

SIdle == spc = "idle" /\ sop = "casual" /\ stext = <<>> /\ sout = NoSubstitution

\* a caller has a text for _make_more_casual
SInputCasual ==
    /\ spc = "idle"
    /\ stext' \in SubTexts
    /\ sop' = "casual"
    /\ spc' = "input"
    /\ sout' = NoSubstitution
    /\ UNCHANGED <<ovars, rvars, avars, dvars, fvars, gvars, xvars, cvars>>

\* a caller has a text for _make_more_formal
SInputFormal ==
    /\ spc = "idle"
    /\ stext' \in SubTexts
    /\ sop' = "formal"
    /\ spc' = "input"
    /\ sout' = NoSubstitution
    /\ UNCHANGED <<ovars, rvars, avars, dvars, fvars, gvars, xvars, cvars>>

\* _make_more_casual runs, and runs again on what it returned
SCasual ==
    /\ spc = "input" /\ sop = "casual"
    /\ sout' = [once |-> MakeMoreCasual(stext),
                twice |-> MakeMoreCasual(MakeMoreCasual(stext))]
    /\ spc' = "done"
    /\ UNCHANGED <<sop, stext>>
    /\ UNCHANGED <<ovars, rvars, avars, dvars, fvars, gvars, xvars, cvars>>

\* _make_more_formal runs, and runs again on what it returned
SFormal ==
    /\ spc = "input" /\ sop = "formal"
    /\ sout' = [once |-> MakeMoreFormal(stext),
                twice |-> MakeMoreFormal(MakeMoreFormal(stext))]
    /\ spc' = "done"
    /\ UNCHANGED <<sop, stext>>
    /\ UNCHANGED <<ovars, rvars, avars, dvars, fvars, gvars, xvars, cvars>>

\* the caller has the text
SReturn ==
    /\ spc = "done"
    /\ spc' = "idle" /\ sop' = "casual" /\ stext' = <<>> /\ sout' = NoSubstitution
    /\ UNCHANGED <<ovars, rvars, avars, dvars, fvars, gvars, xvars, cvars>>

SNext == SInputCasual \/ SInputFormal \/ SCasual \/ SFormal \/ SReturn

(***************************************************************************)
(* SpecCalls: each of two callers runs adapt_based_on_feedback statement   *)
(* by statement, the statements of the two interleaved in every order.     *)
(* The function reads its arguments and its local dict only: the generator *)
(* object has no attribute (__init__, lines 6-7, is "pass").               *)
(***************************************************************************)
CallTexts ==
    {<<Dot>>,
     [i \in 1..6 |-> Tok("a")] \o <<Dot>>,
     <<Tok("extraordinary"), Tok("extraordinary"), Tok("therefore"), Dot>>,
     <<Tok("a"), Tok("don't"), Dot>>}

NoCall ==
    [pc |-> "idle", prompt |-> "", generated |-> <<>>, modified |-> <<>>,
     analysis |-> NoAnalysis, out |-> NoAnalysis]

CIdle == calls = [c \in Callers |-> NoCall]

\* caller c calls with a prompt, a generated text and a modified text
CCall(c) ==
    /\ calls[c].pc = "idle"
    /\ \E prompt \in {"Write an email"}, generated_content \in CallTexts,
          user_modifications \in CallTexts :
          calls' = [calls EXCEPT ![c] =
                       [NoCall EXCEPT !.pc = "create", !.prompt = prompt,
                                      !.generated = generated_content,
                                      !.modified = user_modifications]]
    /\ UNCHANGED <<ovars, rvars, avars, dvars, fvars, gvars, xvars, svars>>

\* lines 175-180
CCreate(c) ==
    /\ calls[c].pc = "create"
    /\ calls' = [calls EXCEPT
           ![c].analysis = NewAnalysis(calls[c].prompt, calls[c].generated, calls[c].modified),
           ![c].pc = "length"]
    /\ UNCHANGED <<ovars, rvars, avars, dvars, fvars, gvars, xvars, svars>>

\* lines 183-186
CLength(c) ==
    /\ calls[c].pc = "length"
    /\ calls' = [calls EXCEPT
           ![c].analysis = Appended(@, LengthAdjustments(calls[c].modified, calls[c].generated)),
           ![c].pc = "formality"]
    /\ UNCHANGED <<ovars, rvars, avars, dvars, fvars, gvars, xvars, svars>>

\* lines 189-192
CFormality(c) ==
    /\ calls[c].pc = "formality"
    /\ calls' = [calls EXCEPT
           ![c].analysis = Appended(@, FormalityAdjustments(calls[c].modified, calls[c].generated)),
           ![c].pc = "vocabulary"]
    /\ UNCHANGED <<ovars, rvars, avars, dvars, fvars, gvars, xvars, svars>>

\* lines 195-198
CVocabulary(c) ==
    /\ calls[c].pc = "vocabulary"
    /\ calls' = [calls EXCEPT
           ![c].analysis = Appended(@, VocabularyAdjustments(calls[c].modified, calls[c].generated)),
           ![c].pc = "return"]
    /\ UNCHANGED <<ovars, rvars, avars, dvars, fvars, gvars, xvars, svars>>

\* line 200: return feedback_analysis
CReturn(c) ==
    /\ calls[c].pc = "return"
    /\ calls' = [calls EXCEPT ![c].out = calls[c].analysis, ![c].pc = "done"]
    /\ UNCHANGED <<ovars, rvars, avars, dvars, fvars, gvars, xvars, svars>>

\* the caller drops the result and is free to call again
CRelease(c) ==
    /\ calls[c].pc = "done"
    /\ calls' = [calls EXCEPT ![c] = NoCall]
    /\ UNCHANGED <<ovars, rvars, avars, dvars, fvars, gvars, xvars, svars>>

CNext ==
    \E c \in Callers :
        \/ CCall(c) \/ CCreate(c) \/ CLength(c) \/ CFormality(c)
        \/ CVocabulary(c) \/ CReturn(c) \/ CRelease(c)

(***************************************************************************)
(* The specifications.                                                     *)
(***************************************************************************)
\* Nothing has been called and nothing is stored.
Init == OIdle /\ RIdle /\ AIdle /\ DIdle /\ FIdle /\ GIdle /\ XIdle /\ SIdle /\ CIdle

SpecOllama ==
    /\ Init
    /\ [][ONext]_vars

SpecAggregate ==
    /\ Init
    /\ [][ANext]_vars

SpecRefine ==
    /\ Init
    /\ [][RNext]_vars

Spec ==
    /\ Init
    /\ [][DNext]_vars

SpecFeedback ==
    /\ Init
    /\ [][FNext]_vars

SpecGenerate ==
    /\ Init
    /\ [][GNext]_vars

SpecStats ==
    /\ Init
    /\ [][TNext]_vars

SpecProfile ==
    /\ Init
    /\ [][PNext]_vars

SpecCalls ==
    /\ Init
    /\ [][CNext]_vars

SpecAnalyze ==
    /\ Init
    /\ [][XNext]_vars

SpecSubstitute ==
    /\ Init
    /\ [][SNext]_vars

(***************************************************************************)
(* Claims about OllamaClient.generate_text (SpecOllama).                   *)
(***************************************************************************)
\* the ways a call ends on a fault
FaultEvents ==
    {"probe_status", "probe_exception", "Timeout", "ConnectionError",
     "ChunkedEncodingError", "AttributeError", "RecursionError", "status_other"}

\* C1: generate_text never propagates a fault: a finished call has given
\* its caller a string, and when it ended on a failed probe, a timeout, a
\* transport failure, a non-200 status or an unexpected error, that string
\* is the offline template chosen from the prompt's keywords.
C1_NeverPropagates ==
    opc = "done" =>
        /\ oresult.kind \in {"model", "template"}
        /\ olast \in FaultEvents =>
              /\ oresult.kind = "template"
              /\ oresult.text =
                    (IF "email" \in oprompt THEN "template_email"
                     ELSE IF oprompt \cap {"essay", "write about"} # {} THEN "template_essay"
                     ELSE IF oprompt \cap {"story", "creative"} # {} THEN "template_story"
                     ELSE "template_generic")

\* C1 witness: an unexpected error during the retry with the smaller model
\* ended the call with the essay template.
C1_Witness ==
    /\ opc = "done" /\ olast = "AttributeError" /\ Len(omodels) = 2
    /\ oresult = Returned("template", "template_essay")

\* C2: a completion call makes at most two model requests, the requested
\* model first and the smaller model second, before the offline template.
C2_AtMostTwoRequests ==
    /\ Len(omodels) <= 2
    /\ Len(omodels) = 2 => omodels[2] = SmallModel

(***************************************************************************)
(* Claims about the stored style profiles (Spec).                          *)
(***************************************************************************)
\* C3: whatever the users request, the database holds at most one style
\* profile per user id: a successful analysis leaves the user with a
\* profile, and a profile that exists stays the same record (the same id)
\* through every later request.
C3_OneProfilePerUser ==
    [][/\ \A i, j \in 1..Len(profiles') :
             profiles'[i].user_id = profiles'[j].user_id => i = j
       /\ (resp'.op = "analyze" /\ resp'.status = 200) =>
             OfUser(profiles', resp'.user) # <<>>
       /\ \A user \in Users :
             OfUser(profiles, user) # <<>> =>
                 /\ OfUser(profiles', user) # <<>>
                 /\ OfUser(profiles', user)[1].id = OfUser(profiles, user)[1].id]_vars

\* C3 witness: both users have a profile and the analysis just answered
\* has overwritten the one of its user.
C3_Witness ==
    /\ resp.op = "analyze" /\ resp.status = 200
    /\ Len(profiles) = 2
    /\ OfUser(profiles, resp.user)[1].updated_at = "utcnow"

\* C4: after a successful analysis request every stored field of the
\* user's profile is the value aggregated from the samples the user has
\* stored at that moment.
C4_ProfileIsAggregateOfStoredSamples ==
    (resp.op = "analyze" /\ resp.status = 200) =>
        LET mine == OfUser(samples, resp.user)
            aggregated ==
                BuildUserStyleProfile(
                    [i \in 1..Len(mine) |-> AnalyzeWritingSample(TextOf(mine[i].content))]).value
            stored == OfUser(profiles, resp.user)[1]
        IN  /\ stored.vocabulary_level = aggregated.vocabulary_level
            /\ stored.formality_preference = aggregated.formality_preference
            /\ stored.sentence_complexity = aggregated.avg_sentence_length
            /\ stored.emotional_patterns = aggregated.emotional_expression_patterns
            /\ stored.word_preferences.words = aggregated.preferred_words
            /\ stored.word_preferences.phrases = aggregated.preferred_phrases
            /\ stored.style_embedding = aggregated.style_embedding

\* C4 witness: a user whose profile was casual when the stored text was
\* generated for it (the casual rewriting of "However") has uploaded S2
\* instead, and the analysis just answered has overwritten the profile,
\* which is formal now.
C4_Witness ==
    /\ resp.op = "analyze" /\ resp.status = 200
    /\ OfUser(samples, resp.user) # <<>>
    /\ OfUser(samples, resp.user)[1].content = "S2"
    /\ OfUser(profiles, resp.user)[1].updated_at = "utcnow"
    /\ OfUser(profiles, resp.user)[1].formality_preference = "formal"
    /\ OfUser(generated, resp.user) # <<>>
    /\ OfUser(generated, resp.user)[1].generated_text[1].b = "but"

\* C5: only an analysis request writes a style profile: every other
\* request, 'modified' feedback included, leaves the stored profiles as
\* they are.
C5_OnlyAnalysisWritesProfiles ==
    [][profiles' # profiles => (resp'.op = "analyze" /\ resp'.status = 200)]_vars

\* C5 witness: 'modified' feedback with a modified text was stored for a
\* user who has a profile.
C5_Witness ==
    /\ resp.op = "feedback" /\ resp.status = 200
    /\ OfUser(profiles, resp.user) # <<>>
    /\ feedbacks # <<>>
    /\ feedbacks[1].feedback_type = "modified"
    /\ feedbacks[1].modified_text # <<>>

\* C6: a request that fails with an unexpected internal error (the 500
\* "... failed" response carrying the cause) leaves every stored record as
\* it was before the request.
C6_FailedRequestChangesNothing ==
    [][resp'.status = 500 => UNCHANGED <<samples, profiles, generated, feedbacks>>]_vars

(***************************************************************************)
(* Claims about build_user_style_profile (SpecAggregate).                  *)
(***************************************************************************)
\* C7: build_user_style_profile([]) fails with a validation error and never
\* gives a normal result.
C7_EmptyListRaises ==
    (apc = "done" /\ ainput = <<>>) => aout.kind = "raised"

\* C8: for a non-empty list of N sample analyses the profile's sample_count
\* is N.
C8_SampleCountIsLength ==
    (apc = "done" /\ ainput # <<>>) =>
        /\ aout.kind = "returned"
        /\ aout.value.sample_count = Len(ainput)

\* C8 witness: a list of three analyses, the first two of them equal, gave
\* sample_count 3.
C8_Witness ==
    /\ apc = "done" /\ Len(ainput) = 3
    /\ ainput[1] = ainput[2]
    /\ aout.value.sample_count = 3

(***************************************************************************)
(* Claims about the refiner (SpecRefine).                                  *)
(***************************************************************************)
\* A conjunction of the split list at a word index above 8 (0-based).
IsSplitPoint(s, i) ==
    /\ s[i].b \in {"and", "but", "so", "because", "while"} /\ s[i].tail = ""
    /\ i - 1 > 8

HasSplitPoint(s) == \E i \in 1..Len(s) : IsSplitPoint(s, i)

FirstSplitPoint(s) ==
    CHOOSE i \in 1..Len(s) :
        IsSplitPoint(s, i) /\ \A j \in 1..(i - 1) : ~IsSplitPoint(s, j)

\* What the claim says becomes of one sentence.
C9_Expected(s) ==
    IF Len(s) > 25 /\ HasSplitPoint(s)
    THEN <<SubSeq(s, 1, FirstSplitPoint(s) - 1),
           SubSeq(s, FirstSplitPoint(s) + 1, Len(s))>>
    ELSE <<s>>

\* C9: with a target below 12, every sentence of more than 25 words with a
\* conjunction at a word index above 8 becomes exactly two sentences, the
\* words before the first such conjunction and the words after it, and
\* every other sentence keeps its words.
C9_SplitAtFirstConjunction ==
    (rpc = "done" /\ RLess(rprofile.avg_sentence_length, Whole(12))) =>
        LET ss == SplitSentences(rtext)
        IN  rout.mid =
              JoinSentences(Flatten([i \in 1..Len(ss) |-> C9_Expected(ss[i])]))

\* C9 witness: a 26-word sentence with "and" at index 9 was split in two
\* parts of 9 and 16 words.
C9_Witness ==
    /\ rpc = "done" /\ rprofile.avg_sentence_length = Whole(8)
    /\ Len(SplitSentences(rtext)) = 1
    /\ Len(SplitSentences(rtext)[1]) = 26
    /\ SplitSentences(rtext)[1][10] = Tok("and")
    /\ Len(SplitSentences(rout.mid)) = 2
    /\ Len(SplitSentences(rout.mid)[1]) = 9
    /\ Len(SplitSentences(rout.mid)[2]) = 16

\* C10: refining the scenario text with target 8 gives at least two sentences.
C10_ScenarioIsSplit ==
    (rpc = "done" /\ rtext = ScenarioText /\ rprofile.avg_sentence_length = Whole(8)) =>
        Len(SplitSentences(rout.text)) >= 2

\* The loop heads of the forward pass over n sentences: the first sentence,
\* the sentence after a head that is passed through, and the sentence two
\* after a head that is merged with its successor.
C11_IsShort(ss, j) == Len(ss[j]) < 8 /\ j + 1 <= Len(ss)

C11_Heads(ss) ==
    LET head[i \in 1..Len(ss)] ==
            IF i = 1 THEN TRUE
            ELSE \/ head[i - 1] /\ ~C11_IsShort(ss, i - 1)
                 \/ i > 2 /\ head[i - 2] /\ C11_IsShort(ss, i - 2)
    IN  {i \in 1..Len(ss) : head[i]}

\* "<sentence>, and <lowercased successor>"
C11_Merged(a, b) ==
    [i \in 1..(Len(a) + 1 + Len(b)) |->
        IF i < Len(a) THEN a[i]
        ELSE IF i = Len(a) THEN [a[i] EXCEPT !.tail = a[i].tail \o ","]
        ELSE IF i = Len(a) + 1 THEN Tok("and")
        ELSE [b[i - Len(a) - 1] EXCEPT !.cap = FALSE]]

\* The sentences the pass gives, one per loop head, in order.
C11_Expected(ss) ==
    LET heads == C11_Heads(ss)
        rank(i) == Cardinality({j \in heads : j <= i})
        at(r) == CHOOSE i \in heads : rank(i) = r
    IN  [r \in 1..Cardinality(heads) |->
            IF C11_IsShort(ss, at(r)) THEN C11_Merged(ss[at(r)], ss[at(r) + 1])
            ELSE ss[at(r)]]

\* C11: with a target above 20 the refiner makes one forward pass: a
\* sentence of fewer than 8 words with a successor is merged with it as
\* "<sentence>, and <lowercased successor>" and both are consumed, every
\* other sentence passes unchanged, and a merged result is not merged again.
C11_SingleForwardPass ==
    (rpc = "done" /\ RLess(Whole(20), rprofile.avg_sentence_length)) =>
        rout.mid = JoinSentences(C11_Expected(SplitSentences(rtext)))

\* C11 witness: three two-word sentences; the first two were merged into a
\* five-word sentence that was not merged with the third.
C11_Witness ==
    /\ rpc = "done" /\ rprofile.avg_sentence_length = Whole(21)
    /\ rtext = ShortPiece \o ShortPiece \o ShortPiece
    /\ rout.mid = <<Cap("we"), Comma("ship"), Tok("and"), Tok("we"), Tok("ship"),
                    Dot, Cap("we"), Tok("ship"), Dot>>

\* the words of a text that are b, in any case and with any punctuation
C12_Count(text, b) == Cardinality({i \in 1..Len(text) : text[i].b = b})

\* C12: the refined text is the formality substitution applied to the
\* result of the sentence-length pass.  So the casual substitution adds no
\* split (the sentences are those of the length pass), and the formal
\* substitution meets only the "so" and "but" the length pass has left.
C12_LengthThenFormality ==
    rpc = "done" =>
        /\ rout.text = FormalityPass(rout.mid, rprofile)
        /\ rprofile.formality_preference = "casual" =>
              Len(SplitSentences(rout.text)) = Len(SplitSentences(rout.mid))
        /\ rprofile.formality_preference = "formal" =>
              /\ C12_Count(rout.text, "so") = 0 /\ C12_Count(rout.text, "but") = 0
              /\ C12_Count(rout.text, "therefore") =
                    C12_Count(rout.mid, "therefore") + C12_Count(rout.mid, "so")
              /\ C12_Count(rout.text, "however") =
                    C12_Count(rout.mid, "however") + C12_Count(rout.mid, "but")

\* C12 witness: a 26-word sentence with "But" at index 9, refined for a
\* formal profile with target 8: the split dropped the "But" and no
\* "however" stands in the two sentences of the output.
C12_Witness ==
    /\ rpc = "done" /\ rprofile = [avg_sentence_length |-> Whole(8),
                                    formality_preference |-> "formal"]
    /\ Len(SplitSentences(rtext)) = 1 /\ Len(SplitSentences(rtext)[1]) = 26
    /\ SplitSentences(rtext)[1][10] = Cap("but")
    /\ C12_Count(rtext, "while") = 0
    /\ Len(SplitSentences(rout.text)) = 2
    /\ C12_Count(rout.text, "however") = 0

(***************************************************************************)
(* Claims about adapt_based_on_feedback (SpecFeedback).                    *)
(***************************************************************************)
\* the tags of the returned analysis
FTags == {fout.style_adjustments[i] : i \in 1..Len(fout.style_adjustments)}

\* C13: increase_formality is emitted exactly when the modified text has
\* more formal-marker hits than the generated text, and increase_casualness
\* exactly when it has more informal-marker hits, each tag by its own
\* comparison alone.
C13_EachTagByItsOwnComparison ==
    fpc = "done" =>
        /\ "increase_formality" \in FTags <=>
              Hits(FeedbackFormalWords, fmodified) > Hits(FeedbackFormalWords, fgenerated)
        /\ "increase_casualness" \in FTags <=>
              Hits(FeedbackCasualWords, fmodified) > Hits(FeedbackCasualWords, fgenerated)

\* C14: prefers_longer_content is emitted exactly when the modified word
\* count is above 1.2 times the generated word count, prefers_shorter_content
\* exactly when it is below 0.8 times, and never both.
C14_LengthTags ==
    fpc = "done" =>
        LET m == Len(RawWords(fmodified))
            g == Len(RawWords(fgenerated))
        IN  /\ "prefers_longer_content" \in FTags <=> 10 * m > 12 * g
            /\ "prefers_shorter_content" \in FTags <=> 10 * m < 8 * g
            /\ ~({"prefers_longer_content", "prefers_shorter_content"} \subseteq FTags)
            /\ (10 * m <= 12 * g /\ 10 * m >= 8 * g) =>
                  FTags \cap {"prefers_longer_content", "prefers_shorter_content"} = {}

\* C14 witness: six words against five, exactly 1.2 times: no length tag.
C14_Witness ==
    /\ fpc = "done"
    /\ fout.original_length = 5 /\ fout.modified_length = 6
    /\ FTags \cap {"prefers_longer_content", "prefers_shorter_content"} = {}

\* C15: prefer_simpler_vocabulary is emitted exactly when the modified text
\* has more words but fewer characters than the generated text,
\* prefer_complex_vocabulary exactly when it has fewer words but more
\* characters, and never both.
C15_VocabularyTags ==
    fpc = "done" =>
        LET mw == Len(RawWords(fmodified))
            gw == Len(RawWords(fgenerated))
            mc == CharLen(fmodified)
            gc == CharLen(fgenerated)
        IN  /\ "prefer_simpler_vocabulary" \in FTags <=> (mw > gw /\ mc < gc)
            /\ "prefer_complex_vocabulary" \in FTags <=> (mw < gw /\ mc > gc)
            /\ ~({"prefer_simpler_vocabulary", "prefer_complex_vocabulary"} \subseteq FTags)

\* C15 witness: "a a a a." for "extraordinary extraordinary.": four words
\* for two, 8 characters for 28.
C15_Witness ==
    /\ fpc = "done"
    /\ fgenerated = <<Tok("extraordinary"), Tok("extraordinary"), Dot>>
    /\ fmodified = <<Tok("a"), Tok("a"), Tok("a"), Tok("a"), Dot>>
    /\ "prefer_simpler_vocabulary" \in FTags
    /\ "prefers_longer_content" \in FTags

(***************************************************************************)
(* Claims about generate_personalized_content (SpecGenerate).              *)
(***************************************************************************)
\* C16: called with an empty style profile, generate_personalized_content
\* sends the completion client exactly the user's prompt, nothing added.
C16_BarePromptForwarded ==
    (gpc = "done" /\ gprofile = EmptyDict) => gsent.prompt = gprompt

\* the exclamation marks per 1000 words of the samples the profile is from
C17_Rate == DeterminePunctuationStyle(ganalyses).exclamation_marks

\* C17: for a generation requested through generate_content from a stored
\* profile, the conditioning block says "use exclamation marks" exactly
\* when the exclamation rate of the user's samples is above 5, "avoid
\* excessive exclamation marks" exactly when it is below 1, and neither
\* when it is from 1 to 5.
C17_ExclamationDirectiveFollowsRate ==
    (gpc = "done" /\ gvia = "endpoint") =>
        /\ gsent.prompt.exclamation = "use" <=> RLess(Whole(5), C17_Rate)
        /\ gsent.prompt.exclamation = "avoid" <=> RLess(C17_Rate, Whole(1))
        /\ gsent.prompt.exclamation = "none" <=>
              (~RLess(Whole(5), C17_Rate) /\ ~RLess(C17_Rate, Whole(1)))

(***************************************************************************)
(* Claims about the aggregator's thresholds (SpecAggregate).               *)
(***************************************************************************)
\* the formality scores of the analyses aggregated
C18_Scores == [i \in 1..Len(ainput) |-> ainput[i].formality_score]

\* the sum of the scores over their number, compared with p/q:
\* q * sum(n_i * D / d_i) against p * D * N, D the product of the d_i
C18_Denominator ==
    LET prod[k \in 0..Len(ainput)] ==
            IF k = 0 THEN 1 ELSE prod[k - 1] * C18_Scores[k].d
    IN  prod[Len(ainput)]

C18_Numerator ==
    SumSeq([i \in 1..Len(ainput) |->
              C18_Scores[i].n * (C18_Denominator \div C18_Scores[i].d)])

C18_MeanAbove(p, q) == q * C18_Numerator > p * C18_Denominator * Len(ainput)
C18_MeanBelow(p, q) == q * C18_Numerator < p * C18_Denominator * Len(ainput)

C19_Polarities(list) == [i \in 1..Len(list) |-> list[i].sentiment.polarity]

\* the population variance as the mean of the squares less the square of
\* the mean
C19_Variance(xs) ==
    LET m == RDiv(RSum(xs), Len(xs))
        squares == [i \in 1..Len(xs) |-> RMul(xs[i], xs[i])]
    IN  RSub(RDiv(RSum(squares), Len(xs)), RMul(m, m))

\* C19 as stated: sentiment consistency is 1 minus the population standard
\* deviation of the polarities, and it can be negative: some list of
\* analyses aggregates to a consistency below 0, that is to a standard
\* deviation, and so a variance, above 1.
C19_SomeListBelowZero ==
    (apc = "done" /\ ainput # <<>>) =>
        /\ aout.value.sentiment_tendencies.sentiment_consistency.one_minus_sqrt
              = C19_Variance(C19_Polarities(ainput))
        /\ \E list \in (AnalysisLists \cup SyntheticLists) \ {<<>>} :
              RLess(Whole(1),
                    DetermineSentimentTendencies(list).sentiment_consistency.one_minus_sqrt)

\* C19 as it holds: sentiment consistency is 1 minus the population
\* standard deviation of the per-sample polarities, unclamped; polarities
\* lie in [-1, 1], so the deviation is at most 1 and the consistency lies
\* in [0, 1], 0 being reached by polarities -1 and 1 in equal numbers.
C19_ConsistencyIsOneMinusDeviation ==
    (apc = "done" /\ ainput # <<>>) =>
        LET xs == C19_Polarities(ainput)
            variance == aout.value.sentiment_tendencies.sentiment_consistency.one_minus_sqrt
        IN  /\ \A i \in 1..Len(xs) : ~RLess(xs[i], Whole(-1)) /\ ~RLess(Whole(1), xs[i])
            /\ variance = C19_Variance(xs)
            /\ ~RLess(variance, Whole(0)) /\ ~RLess(Whole(1), variance)
            /\ (variance = Whole(1)) <=>
                  (/\ \A i \in 1..Len(xs) : xs[i] \in {Whole(-1), Whole(1)}
                   /\ RSum(xs) = Whole(0))

\* C19 witness: polarities -1 and 1 gave the deviation 1, consistency 0.
C19_Witness ==
    /\ apc = "done"
    /\ C19_Polarities(ainput) = <<Whole(-1), Whole(1)>>
    /\ aout.value.sentiment_tendencies.sentiment_consistency.one_minus_sqrt = Whole(1)

(***************************************************************************)
(* Claims about the readability score (SpecAnalyze).                       *)
(***************************************************************************)
\* x >= k
C20_AtLeast(x, k) == x.n >= k * x.d

\* C20: for every text the readability score lies in [0, 100], it is 50
\* when the text has no words or no sentences, and the grade level is the
\* step of the score: 5 from 90, 6 from 80, 7 from 70, 8.5 from 60, 10 from
\* 50, 13 from 30, 16 below.
C20_ReadabilityRange ==
    xpc = "done" =>
        LET score == xout.flesch_reading_ease
            grade == xout.flesch_kincaid_grade
        IN  /\ C20_AtLeast(score, 0) /\ score.n <= 100 * score.d
            /\ (xout.word_count = 0 \/ xout.sentence_count = 0) => score = Whole(50)
            /\ grade \in {Whole(5), Whole(6), Whole(7), Rat(17, 2), Whole(10),
                          Whole(13), Whole(16)}
            /\ grade = Whole(5) <=> C20_AtLeast(score, 90)
            /\ grade = Whole(6) <=> (C20_AtLeast(score, 80) /\ ~C20_AtLeast(score, 90))
            /\ grade = Whole(7) <=> (C20_AtLeast(score, 70) /\ ~C20_AtLeast(score, 80))
            /\ grade = Rat(17, 2) <=> (C20_AtLeast(score, 60) /\ ~C20_AtLeast(score, 70))
            /\ grade = Whole(10) <=> (C20_AtLeast(score, 50) /\ ~C20_AtLeast(score, 60))
            /\ grade = Whole(13) <=> (C20_AtLeast(score, 30) /\ ~C20_AtLeast(score, 50))
            /\ grade = Whole(16) <=> ~C20_AtLeast(score, 30)

\* C20 witness: "problematic problematic.", two words of four syllables:
\* 206.835 - 2.03 - 338.4 is below 0, the score is 0 and the grade 16.
C20_Witness ==
    /\ xpc = "done"
    /\ xtext = <<Tok("problematic"), Tok("problematic"), Dot>>
    /\ xout.flesch_reading_ease = Whole(0)
    /\ xout.flesch_kincaid_grade = Whole(16)

(***************************************************************************)
(* Claims about the style embedding (SpecAggregate).                       *)
(***************************************************************************)
\* the embedding has 32 entries, and entries 9 to 32 are zero
C21_WellFormed(embedding) ==
    /\ Len(embedding) = 32
    /\ \A k \in 9..32 : embedding[k] = Whole(0)

\* C21: the style embedding of every sample, the empty text's included, has
\* exactly 32 entries of which entries 9 to 32 are zero, and so has the
\* profile embedding, the elementwise mean of the sample embeddings.
C21_EmbeddingShape ==
    /\ \A i \in 1..Len(ainput) : C21_WellFormed(ainput[i].style_embedding)
    /\ (apc = "done" /\ ainput # <<>>) =>
          LET embedding == Get(aout.value, "style_embedding", <<>>)
          IN  /\ C21_WellFormed(embedding)
              /\ \A k \in 1..32 :
                    RMul(embedding[k], Whole(Len(ainput)))
                        = RSum([i \in 1..Len(ainput) |-> ainput[i].style_embedding[k]])

\* C21 witness: a profile built from the empty text's analysis and another
\* one, whose first entries (the word counts) differ.
C21_Witness ==
    /\ apc = "done"
    /\ Len(ainput) = 2
    /\ ainput[1] = AnalyzeWritingSample(<<>>)
    /\ ainput[1].word_count = 0
    /\ ainput[2].style_embedding[1] # ainput[1].style_embedding[1]
    /\ Len(Get(aout.value, "style_embedding", <<>>)) = 32

(***************************************************************************)
(* Claims about the two substitutions (SpecSubstitute).                    *)
(***************************************************************************)
C22_FormalWords ==
    {"therefore", "however", "furthermore", "consequently", "nevertheless"}

C22_CasualFor ==
    [therefore |-> <<"so">>, however |-> <<"but">>, furthermore |-> <<"also">>,
     consequently |-> <<"so">>, nevertheless |-> <<"but", "still">>]

\* what stands for token t: the lower-case replacement of a formal word,
\* followed by the punctuation that followed the word; any other token as
\* it is
C22_Stands(t) ==
    IF t.b \in C22_FormalWords
    THEN LET ws == C22_CasualFor[t.b]
         IN  [j \in 1..Len(ws) |->
                 [b |-> ws[j], cap |-> FALSE,
                  tail |-> IF j = Len(ws) THEN t.tail ELSE ""]]
    ELSE <<t>>

\* C22: _make_more_casual replaces every occurrence, in any letter case, of
\* therefore, however, furthermore, consequently and nevertheless by so,
\* but, also, so and "but still" and changes no other word; none of the
\* five words remains, and a second application changes nothing.
C22_CasualSubstitution ==
    (spc = "done" /\ sop = "casual") =>
        /\ sout.once = Flatten([i \in 1..Len(stext) |-> C22_Stands(stext[i])])
        /\ \A i \in 1..Len(sout.once) : sout.once[i].b \notin C22_FormalWords
        /\ sout.twice = sout.once

\* C22 witness: "Nevertheless however," becomes "but still but,".
C22_Witness ==
    /\ spc = "done" /\ sop = "casual"
    /\ stext = <<Cap("nevertheless"), Comma("however")>>
    /\ sout.once = <<Tok("but"), Tok("still"), Comma("but")>>

C23_CasualWords == {"so", "but", "also", "anyway"}

C23_FormalFor ==
    [so |-> "therefore", but |-> "however", also |-> "furthermore",
     anyway |-> "nonetheless"]

\* C23: _make_more_formal replaces every occurrence, in any letter case, of
\* so, but, also and anyway by therefore, however, furthermore and
\* nonetheless and changes no other word; none of the four words remains,
\* and a second application changes nothing.
C23_FormalSubstitution ==
    (spc = "done" /\ sop = "formal") =>
        /\ Len(sout.once) = Len(stext)
        /\ \A i \in 1..Len(stext) :
              IF stext[i].b \in C23_CasualWords
              THEN sout.once[i] = [b |-> C23_FormalFor[stext[i].b], cap |-> FALSE,
                                   tail |-> stext[i].tail]
              ELSE sout.once[i] = stext[i]
        /\ \A i \in 1..Len(sout.once) : sout.once[i].b \notin C23_CasualWords
        /\ sout.twice = sout.once

\* C23 witness: "Anyway sofa" becomes "nonetheless sofa".
C23_Witness ==
    /\ spc = "done" /\ sop = "formal"
    /\ stext = <<Cap("anyway"), Tok("sofa")>>
    /\ sout.once = <<Tok("nonetheless"), Tok("sofa")>>

(***************************************************************************)
(* Claims about the request handlers (Spec).                               *)
(***************************************************************************)
\* C24: an upload of fewer than 50 characters and an analysis request of a
\* user without samples are answered 400 and store nothing: no stored
\* sample is shorter than 50 characters, a user without samples gets 400
\* from the analysis, and a 400 answer of either leaves every stored record
\* as it was.
C24_ShapeErrorsStoreNothing ==
    [][/\ \A i \in 1..Len(samples') : CharLen(TextOf(samples'[i].content)) >= 50
       /\ (resp'.op = "analyze" /\ OfUser(samples, resp'.user) = <<>>) =>
             resp'.status = 400
       /\ (resp'.op \in {"upload", "analyze"} /\ resp'.status = 400) =>
             UNCHANGED <<samples, profiles, generated, feedbacks>>]_vars

\* C24 witness: an analysis request of a user without samples was answered
\* 400 while the other user has a sample and a profile.
C24_Witness ==
    /\ resp.op = "analyze" /\ resp.status = 400
    /\ OfUser(samples, resp.user) = <<>> /\ OfUser(profiles, resp.user) = <<>>
    /\ samples # <<>> /\ profiles # <<>>

(***************************************************************************)
(* Claims about the stats endpoint (SpecStats).                            *)
(***************************************************************************)
\* the feedback-history rows of generated content id, oldest first
C25_History(id) == SelectSeq(feedbacks, LAMBDA row : row.content_id = id)

\* the feedback a generation counts under: that of its latest
\* feedback-history row, None without one
C25_Latest(id) ==
    IF C25_History(id) = <<>> THEN None
    ELSE C25_History(id)[Len(C25_History(id))].feedback_type

\* the user's generations whose latest feedback is feedback
C25_Count(user, feedback) ==
    Cardinality({i \in 1..Len(generated) :
                    /\ generated[i].user_id = user
                    /\ C25_Latest(generated[i].id) = feedback})

\* C25: the stats endpoint reports acceptance_rate = 100 * (the user's
\* generations whose latest feedback is 'accepted') / max(total
\* generations, 1); a generation counts under at most one of accepted,
\* modified and rejected; a user whose single generation was accepted has
\* acceptance_rate 100.
C25_AcceptanceRate ==
    (resp.op = "stats" /\ resp.status = 200) =>
        LET total == Len(OfUser(generated, resp.user))
            denominator == IF total > 1 THEN total ELSE 1
        IN  /\ resp.body.total_generations = total
            /\ resp.body.accepted = C25_Count(resp.user, "accepted")
            /\ resp.body.modified = C25_Count(resp.user, "modified")
            /\ resp.body.rejected = C25_Count(resp.user, "rejected")
            /\ resp.body.accepted + resp.body.modified + resp.body.rejected <= total
            /\ resp.body.acceptance_rate.n * denominator
                  = 100 * C25_Count(resp.user, "accepted") * resp.body.acceptance_rate.d
            /\ (total = 1 /\ C25_Latest(OfUser(generated, resp.user)[1].id) = "accepted")
                  => resp.body.acceptance_rate = Whole(100)

\* C25 witness: of a user's two generations the first was accepted and then
\* rejected, the second has no feedback: the rate is 0.
C25_Witness ==
    /\ resp.op = "stats" /\ resp.status = 200
    /\ Len(OfUser(generated, resp.user)) = 2
    /\ Len(C25_History(1)) = 2
    /\ feedbacks[1].feedback_type = "accepted"
    /\ feedbacks[2].feedback_type = "rejected"
    /\ resp.body.acceptance_rate = Whole(0)
    /\ resp.body.rejected = 1

(***************************************************************************)
(* Claims about concurrent calls of adapt_based_on_feedback (SpecCalls).   *)
(***************************************************************************)
\* C26: two calls of adapt_based_on_feedback with identical arguments
\* return identical adjustment lists and identical length counts, whatever
\* other calls ran before, in between or at the same time; what a call
\* returns is what the function gives for its arguments alone.
C26_SameArgumentsSameResult ==
    /\ \A c \in Callers :
          calls[c].pc = "done" =>
              calls[c].out = AdaptBasedOnFeedback(calls[c].prompt, calls[c].generated,
                                                  calls[c].modified, DefaultProfile)
    /\ \A c, d \in Callers :
          (/\ calls[c].pc = "done" /\ calls[d].pc = "done"
           /\ calls[c].prompt = calls[d].prompt
           /\ calls[c].generated = calls[d].generated
           /\ calls[c].modified = calls[d].modified) =>
              /\ calls[c].out.style_adjustments = calls[d].out.style_adjustments
              /\ calls[c].out.original_length = calls[d].out.original_length
              /\ calls[c].out.modified_length = calls[d].out.modified_length

\* C26 witness: both callers have returned from calls with the same
\* arguments, and the result has two adjustments.
C26_Witness ==
    /\ calls[1].pc = "done" /\ calls[2].pc = "done"
    /\ calls[1].generated = calls[2].generated
    /\ calls[1].modified = calls[2].modified
    /\ calls[1].generated # calls[1].modified
    /\ Len(calls[1].out.style_adjustments) = 2
    /\ calls[2].out = calls[1].out

(***************************************************************************)
(* Claims about generate_content and the users' records (Spec), and       *)
(* about the get-profile endpoint (SpecProfile).                           *)
(***************************************************************************)
\* C27: a generation request of a user without a stored style profile,
\* whose prompt is long enough and whose profile query does not fail, is
\* answered with the 404 "Style profile not found" error.
C27_NoProfileGives404 ==
    (/\ resp.op = "generate" /\ resp.status # 400
     /\ OfUser(profiles, resp.user) = <<>>
     /\ ~(resp.status = 500 /\ resp.detail[2] = "query")) =>
        resp.status = 404

\* the rows of a table that belong to other users than user
C28_OfOthers(rows, user) == SelectSeq(rows, LAMBDA row : row.user_id # user)

\* user owns a row of rows with this id
C28_Owns(rows, id, user) ==
    \E i \in 1..Len(rows) : rows[i].id = id /\ rows[i].user_id = user

\* C28: whenever a response is delivered, a delete-sample or
\* submit-feedback request naming a sample or generated content the
\* requesting user does not own (another user's, or none) is answered 404
\* with every record unchanged; and no request changes a record of another
\* user than the requesting one.
C28_OtherUsersRecordsUntouched ==
    [][/\ resp'.op = None =>
             \A user \in Users :
                 /\ \A id \in 1..(MaxSamples + 1) :
                       ~C28_Owns(samples, id, user) =>
                           /\ DeleteWritingSample(DB, user, id).resp.status = 404
                           /\ DeleteWritingSample(DB, user, id).db = DB
                 /\ \A id \in 1..(MaxGenerated + 1) :
                       ~C28_Owns(generated, id, user) =>
                           \A feedback_type \in FeedbackTypes,
                              modified_content \in ModifiedTexts,
                              fail \in FeedbackSteps \cup {"none"} :
                              LET r == SubmitFeedback(DB, user, id, feedback_type,
                                                      modified_content, fail)
                              IN  r.resp.status = 404 /\ r.db = DB
       /\ (resp'.op \in {"delete", "feedback"} /\ resp'.status = 404) =>
             UNCHANGED <<samples, profiles, generated, feedbacks>>
       /\ resp'.op # None =>
             /\ C28_OfOthers(samples', resp'.user) = C28_OfOthers(samples, resp'.user)
             /\ C28_OfOthers(profiles', resp'.user) = C28_OfOthers(profiles, resp'.user)
             /\ C28_OfOthers(generated', resp'.user) = C28_OfOthers(generated, resp'.user)
             /\ C28_OfOthers(feedbacks', resp'.user) = C28_OfOthers(feedbacks, resp'.user)]_vars

\* C28 witness: a user's delete request was answered 404 while the other
\* user has a sample, a profile and a generated text.
C28_Witness ==
    /\ resp.op = "delete" /\ resp.status = 404
    /\ C28_OfOthers(samples, resp.user) # <<>>
    /\ C28_OfOthers(profiles, resp.user) # <<>>
    /\ C28_OfOthers(generated, resp.user) # <<>>

\* C29: when the get-profile endpoint answers for a user whose stored
\* profile is the aggregate of the samples the user has stored, all of
\* them analysed, the sample_count it reports is the number of those
\* samples, the sample_count of the aggregation.
C29_ProfileSampleCount ==
    (resp.op = "profile" /\ resp.status = 200) =>
        LET mine == OfUser(samples, resp.user)
            aggregated ==
                BuildUserStyleProfile(
                    [i \in 1..Len(mine) |-> AnalyzeWritingSample(TextOf(mine[i].content))]).value
            stored == OfUser(profiles, resp.user)[1]
        IN  (/\ mine # <<>>
             /\ \A i \in 1..Len(mine) : mine[i].analyzed
             /\ stored.style_embedding = aggregated.style_embedding
             /\ stored.emotional_patterns = aggregated.emotional_expression_patterns) =>
                resp.body.sample_count = aggregated.sample_count

(***************************************************************************)
(* Claims about the emotional-language map (SpecAnalyze).                  *)
(***************************************************************************)
\* C30: no emotion label of a sample's emotional-language map maps to an
\* empty list of snippets.
C30_NoEmptySnippetList ==
    xpc = "done" =>
        \A i \in 1..Len(xout.emotional_language) : xout.emotional_language[i].v # <<>>

====
